---- MODULE Spec2Model ----
(***************************************************************************)
(* Extraction-and-normalization pipeline of baseball-analytics-capstone.   *)
(*                                                                         *)
(* Texts are sequences of one-character strings, so that splitting,        *)
(* joining, stripping and pattern matching are computed character by       *)
(* character.  A pandas cell is a tagged record: [s |-> text] for a        *)
(* string, [i |-> n] for a number with an integer value, [fr |-> n] for a  *)
(* number with a fraction (n its truncation), [inf |-> 1] for a non-finite *)
(* number, NaN for a missing value.                                        *)
(***************************************************************************)
EXTENDS Integers, Sequences, FiniteSets, TLC

VARIABLES
    cells,          \* grouper: the Cells consumed so far, in stream order
    current_set,    \* grouper: the open accumulator, or NoAccumulator
    data,           \* grouper: the RawRecords flushed so far
    gstatus,        \* grouper: "running", "done", "error", "cleaned", "analyzed"
    raw_records,    \* the RawRecords handed to the Normalizer
    brothers_df,    \* the brother-set CleanRecords (table baseball_brothers_sets)
    brothers_out,   \* the frame analyze_brothers_data returns
    mvp_df,         \* dashboard: the mvp_awards frame as loaded
    mvp_out,        \* dashboard: what clean_mvp_data gave, NotRun before the call
    csv,            \* importer: data/raw/<table>.csv, NoFile or the frame read_csv gives
    db,             \* importer: the tables of the SQLite database
    cleaned,        \* importer: the frame clean_<table>_data returned, NotRun before
    imported,       \* importer: what import_csv_to_table returned per table
    clean_errors,   \* importer: the tables whose cleaning logged an error
    reported,       \* importer: the row counts the log lines of a table's import give
    run,            \* importer: the number of the run_import call in progress
    loads,          \* importer: how often to_sql has replaced each table so far
    pc,             \* importer: where run_import stands
    conn,           \* importer: self.conn: "none", "open" or "closed"
    closes,         \* importer: how often the connection has been closed
    ret,            \* importer: the value run_import returns, "none" before
    exit_status,    \* importer: the exit status of the process, "none" before
    indexes,        \* importer: the <<table, column>> pairs that have an index
    fault,          \* the statement the store will fail on in this run, or NoFault
    q_pc,           \* query program: where run_query_program stands
    q_conn,         \* query program: self.conn: "none", "open" or "closed"
    q_closes,       \* query program: how often its connection has been closed
    q_ret,          \* query program: what run_query_program returns, "none" before
    q_args,         \* query program: the command-line option given
    q_command,      \* query program: the query run last, "none" before
    q_answer,       \* query program: "rows" or "error" for that query
    q_count,        \* query program: the commands read in interactive mode
    clean_fn,       \* direct call: the cleaning function called, "none" before
    clean_in,       \* direct call: the frame it is called on
    clean_out,      \* direct call: what it returns, NotRun before
    clean_again,    \* direct call: what it returns on its own output, NotRun before
    s_pc,           \* scraper: where scrape_all_data and main stand
    s_year,         \* scraper: the year the running loop is at
    driver,         \* scraper: self.driver: "none", "up" or "quit"
    events_data,    \* scraper: self.events_data
    players_data,   \* scraper: self.players_data
    statistics_data, \* scraper: self.statistics_data
    fetches,        \* scraper: the pages requested with driver.get
    files           \* scraper: the CSV files save_to_csv has written

grouperVars == <<cells, current_set, data, gstatus, raw_records, brothers_df, brothers_out>>

mvpVars == <<mvp_df, mvp_out>>

runVars == <<pc, conn, closes, ret, exit_status, indexes, fault>>

importVars == <<csv, db, cleaned, imported, clean_errors, reported, run, loads, runVars>>

queryVars == <<q_pc, q_conn, q_closes, q_ret, q_args, q_command, q_answer, q_count>>

cleanVars == <<clean_fn, clean_in, clean_out, clean_again>>

scraperVars ==
    <<s_pc, s_year, driver, events_data, players_data, statistics_data, fetches, files>>

vars == <<grouperVars, mvpVars, importVars, queryVars, cleanVars, scraperVars>>

\* what the steps of one program leave alone: the state of the others
notGrouper == <<mvpVars, importVars, queryVars, cleanVars, scraperVars>>
notMvp == <<grouperVars, importVars, queryVars, cleanVars, scraperVars>>
notImport == <<grouperVars, mvpVars, queryVars, cleanVars, scraperVars>>
notQuery == <<grouperVars, mvpVars, importVars, cleanVars, scraperVars>>
notClean == <<grouperVars, mvpVars, importVars, queryVars, scraperVars>>
notScraper == <<grouperVars, mvpVars, importVars, queryVars, cleanVars>>

(***************************************************************************)
(* Bounds                                                                  *)
(***************************************************************************)
MaxCells == 4
MaxMvpRows == 2
MaxCsvRows == 2
MaxRuns == 2
MaxCommands == 2
MaxNameLen == 3

(***************************************************************************)
(* Text helpers                                                            *)
(***************************************************************************)
Digits == {"0", "1", "2", "3", "4", "5", "6", "7", "8", "9"}

IsDigit(ch) == ch \in Digits

DigitVal(ch) ==
    CASE ch = "0" -> 0 [] ch = "1" -> 1 [] ch = "2" -> 2 [] ch = "3" -> 3
      [] ch = "4" -> 4 [] ch = "5" -> 5 [] ch = "6" -> 6 [] ch = "7" -> 7
      [] ch = "8" -> 8 [] ch = "9" -> 9 [] OTHER -> 0

\* the strict "digits only" predicate: at least one character, all digits
IsDigits(s) == Len(s) >= 1 /\ \A k \in 1..Len(s) : IsDigit(s[k])

RECURSIVE ToInt(_)
ToInt(s) ==
    IF Len(s) = 0 THEN 0
    ELSE 10 * ToInt(SubSeq(s, 1, Len(s) - 1)) + DigitVal(s[Len(s)])

\* the whitespace of str.strip() and of the regex \s
IsWhitespace(ch) == ch \in {" ", "\t", "\n"}

RECURSIVE LStrip(_)
LStrip(s) == IF Len(s) >= 1 /\ IsWhitespace(s[1]) THEN LStrip(Tail(s)) ELSE s

RECURSIVE RStrip(_)
RStrip(s) ==
    IF Len(s) >= 1 /\ IsWhitespace(s[Len(s)]) THEN RStrip(SubSeq(s, 1, Len(s) - 1)) ELSE s

\* str.strip()
Strip(s) == LStrip(RStrip(s))

RECURSIVE Concat(_)
Concat(ss) == IF Len(ss) = 0 THEN <<>> ELSE Head(ss) \o Concat(Tail(ss))

(***************************************************************************)
(* pandas cells and Series helpers                                         *)
(***************************************************************************)
NaN == [nan |-> TRUE]

IsNaN(v) == "nan" \in DOMAIN v
IsStr(v) == "s" \in DOMAIN v
IsInt(v) == "i" \in DOMAIN v        \* a number with an integer value
IsFrac(v) == "fr" \in DOMAIN v      \* a number with a fraction; fr is its truncation
IsInf(v) == "inf" \in DOMAIN v      \* a non-finite number

StrCell(t) == [s |-> t]
IntCell(n) == [i |-> n]

\* the position of the first "." of t, or 0
FirstDot(t) ==
    IF \E k \in 1..Len(t) : t[k] = "."
    THEN CHOOSE k \in 1..Len(t) : t[k] = "." /\ \A j \in 1..(k - 1) : t[j] # "."
    ELSE 0

\* the number a text parses to, or NaN (errors='coerce')
ParseNumber(t) ==
    LET d == FirstDot(t)
        whole == SubSeq(t, 1, d - 1)
        frac == SubSeq(t, d + 1, Len(t))
    IN  IF IsDigits(t) THEN IntCell(ToInt(t))
        ELSE IF Len(t) >= 2 /\ t[1] = "-" /\ IsDigits(Tail(t)) THEN IntCell(0 - ToInt(Tail(t)))
        ELSE IF t = <<"i", "n", "f">> THEN [inf |-> 1]
        ELSE IF d > 0 /\ Len(t) >= 2 /\ (whole = <<>> \/ IsDigits(whole))
                      /\ (frac = <<>> \/ IsDigits(frac))
             THEN IF \A k \in 1..Len(frac) : frac[k] = "0"
                  THEN IntCell(ToInt(whole))
                  ELSE [fr |-> ToInt(whole)]
        ELSE NaN

\* pd.to_numeric(..., errors='coerce') on one cell
ToNumeric(v) == IF IsStr(v) THEN ParseNumber(Strip(v.s)) ELSE v

\* the n-th position of the set P of positions, in ascending order
NthOf(P, n) == CHOOSE p \in P : Cardinality({q \in P : q < p}) = n - 1

SplitNone(t, sep) == <<t>>

\* a split that leaves the empty pieces out
SplitDropEmpty(t, sep) ==
    LET cuts == {0, Len(t) + 1} \cup {k \in 1..Len(t) : t[k] = sep}
        piece(n) == SubSeq(t, NthOf(cuts, n) + 1, NthOf(cuts, n + 1) - 1)
        all == [n \in 1..(Cardinality(cuts) - 1) |-> piece(n)]
        Full(x) == x # <<>>
    IN  SelectSeq(all, Full)

\* str.split(sep) for a one-character separator: empty pieces are kept
RECURSIVE Split(_, _)
Split(t, sep) ==
    IF \E k \in 1..Len(t) : t[k] = sep
    THEN LET p == CHOOSE k \in 1..Len(t) : t[k] = sep /\ \A j \in 1..(k - 1) : t[j] # sep
         IN  <<SubSeq(t, 1, p - 1)>> \o Split(SubSeq(t, p + 1, Len(t)), sep)
    ELSE <<t>>

\* sep.join(parts)
RECURSIVE Join(_, _)
Join(parts, sep) ==
    IF Len(parts) = 0 THEN <<>>
    ELSE IF Len(parts) = 1 THEN parts[1]
    ELSE parts[1] \o <<sep>> \o Join(Tail(parts), sep)

(***************************************************************************)
(* Record Grouper (spec.md 4.1; the brother-sets scraper is not among the  *)
(* source files, its consumer is dashboard.py)                             *)
(***************************************************************************)
BoundaryTag == "idx"
FieldTag == "box"
OtherTag == "deco"
NoClass == "none"       \* the Cell has no class attribute

NoAccumulator == [open |-> FALSE]

txt_1dot == <<"1", ".">>
txt_2 == <<"2">>
txt_1dotdot == <<"1", ".", ".">>
txt_H == <<"H">>
txt_T == <<"T">>
txt_semi == <<"a", ";", "b">>

\* the Cells the page source may yield
Cells ==
    { [class_tag |-> BoundaryTag, text |-> txt_1dot],
      [class_tag |-> BoundaryTag, text |-> txt_2],
      [class_tag |-> BoundaryTag, text |-> txt_1dotdot],
      [class_tag |-> BoundaryTag, text |-> txt_H],
      [class_tag |-> FieldTag, text |-> txt_H],
      [class_tag |-> FieldTag, text |-> txt_T],
      [class_tag |-> FieldTag, text |-> txt_semi],
      [class_tag |-> FieldTag, text |-> <<>>],
      [class_tag |-> OtherTag, text |-> txt_T],
      [class_tag |-> NoClass, text |-> txt_H] }

\* strip a single trailing period
StripPeriod(s) ==
    IF Len(s) >= 1 /\ s[Len(s)] = "." THEN SubSeq(s, 1, Len(s) - 1) ELSE s

StripAllPeriods(s) == SelectSeq(s, LAMBDA ch : ch # ".")

IsBoundaryLoose(c) ==
    c.class_tag = BoundaryTag /\ IsDigits(StripAllPeriods(c.text))

\* a boundary Cell: the boundary class and a digits-only text
IsBoundary(c) ==
    c.class_tag = BoundaryTag /\ IsDigits(StripPeriod(c.text))

IsFieldAny(c) == c.class_tag = FieldTag

\* a field Cell: the field class and a non-empty text
IsField(c) == c.class_tag = FieldTag /\ c.text # <<>>

BoundaryKey(c) == ToInt(StripPeriod(c.text))

\* a completed RawRecord: grouping key, ordered fields, derived count
MakeRawRecord(acc) ==
    [key |-> acc.key, fields |-> acc.names, count |-> Len(acc.names)]

FlushAlways(acc, out) ==
    IF acc.open THEN Append(out, MakeRawRecord(acc)) ELSE out

\* flush: emit the accumulator if it is open with at least one field
Flush(acc, out) ==
    IF acc.open /\ Len(acc.names) >= 1 THEN Append(out, MakeRawRecord(acc)) ELSE out

OnMalformedKeep(out) == out

\* StructuralExtractionError: the table yields zero records
OnMalformed(out) == <<>>

NotRun == [status |-> "not run"]

\* the state of the grouper before it runs
GrouperIdle ==
    /\ cells = <<>>
    /\ current_set = NoAccumulator
    /\ data = <<>>
    /\ gstatus = "running"
    /\ raw_records = <<>>
    /\ brothers_df = <<>>
    /\ brothers_out = <<>>

\* the state of the dashboard before a frame is loaded
MvpIdle == mvp_df = <<>> /\ mvp_out = NotRun

Tables == {"events", "players", "statistics"}

\* the schema create_tables gives a table
SchemaColumns(t) ==
    CASE t = "events" ->
            {"id", "year", "event_type", "description", "value", "category", "created_at"}
      [] t = "players" ->
            {"id", "player_name", "stat_value", "stat_type", "team", "category", "rank",
             "created_at"}
      [] t = "statistics" ->
            {"id", "year", "team", "category", "games_played", "wins", "losses", "league",
             "created_at"}

NoFile == [exists |-> FALSE]

\* nothing logged yet: the function with no counter
NoCounts == [name \in {} |-> 0]

\* the store works
NoFault == [op |-> "none"]

\* the query program has not been started
QueryIdle ==
    /\ q_pc = "start"
    /\ q_conn = "none"
    /\ q_closes = 0
    /\ q_ret = "none"
    /\ q_args = "none"
    /\ q_command = "none"
    /\ q_answer = "none"
    /\ q_count = 0

\* no cleaning function has been called directly
CleanIdle ==
    /\ clean_fn = "none"
    /\ clean_in = NotRun
    /\ clean_out = NotRun
    /\ clean_again = NotRun

\* the scraper has been constructed and has not run
ScraperIdle ==
    /\ s_pc = "start"
    /\ s_year = 0
    /\ driver = "none"
    /\ events_data = <<>>
    /\ players_data = <<>>
    /\ statistics_data = <<>>
    /\ fetches = 0
    /\ files = {}

\* the programs and calls the importer's specifications do not run
OthersIdle == QueryIdle /\ CleanIdle /\ ScraperIdle

\* run_import has connected and created the tables, nothing has failed
InLoop ==
    /\ OthersIdle
    /\ pc = "import"
    /\ conn = "open"
    /\ closes = 0
    /\ ret = "none"
    /\ exit_status = "none"
    /\ indexes = {}
    /\ fault = NoFault

\* the state of the importer before it runs: no input files, the tables created
ImportIdle ==
    /\ csv = [t \in Tables |-> NoFile]
    /\ db = [t \in Tables |-> [cols |-> SchemaColumns(t), rows |-> <<>>]]
    /\ cleaned = [t \in Tables |-> NotRun]
    /\ imported = [t \in Tables |-> "pending"]
    /\ clean_errors = {}
    /\ reported = [t \in Tables |-> NoCounts]
    /\ run = 1
    /\ loads = [t \in Tables |-> 0]
    /\ InLoop

GrouperInit == GrouperIdle /\ MvpIdle /\ ImportIdle

\* one iteration of the grouping loop on the next Cell of the stream
GroupCell(c) ==
    /\ gstatus = "running"
    /\ Len(cells) < MaxCells
    /\ cells' = Append(cells, c)
    /\ IF c.class_tag = NoClass
       THEN /\ gstatus' = "error"
            /\ data' = OnMalformed(data)
            /\ current_set' = NoAccumulator
       ELSE /\ gstatus' = gstatus
            /\ IF IsBoundary(c)
               THEN /\ data' = Flush(current_set, data)
                    /\ current_set' = [open |-> TRUE, key |-> BoundaryKey(c), names |-> <<>>]
               ELSE /\ data' = data
                    /\ IF IsField(c) /\ current_set.open
                       THEN current_set' =
                                [current_set EXCEPT !.names = Append(@, c.text)]
                       ELSE current_set' = current_set
    /\ UNCHANGED <<raw_records, brothers_df, brothers_out, notGrouper>>

\* the stream ends: flush the open accumulator, hand the records over
EndOfStream ==
    /\ gstatus = "running"
    /\ gstatus' = "done"
    /\ data' = Flush(current_set, data)
    /\ raw_records' = data'
    /\ current_set' = NoAccumulator
    /\ UNCHANGED <<cells, brothers_df, brothers_out, notGrouper>>

(***************************************************************************)
(* Field Normalizer, brother-sets schema (spec.md 4.2 and 8)               *)
(***************************************************************************)
CleanBrotherSet(r) ==
    [set_number |-> IntCell(r.key),
     brothers_count |-> IntCell(r.count),
     brothers_names |-> StrCell(Join([k \in 1..Len(r.fields) |-> Strip(r.fields[k])], ";"))]

\* grouping is complete: every RawRecord becomes one CleanRecord
NormalizeBrothers ==
    /\ gstatus = "done"
    /\ gstatus' = "cleaned"
    /\ brothers_df' = [k \in 1..Len(raw_records) |-> CleanBrotherSet(raw_records[k])]
    /\ UNCHANGED <<cells, current_set, data, raw_records, brothers_out, notGrouper>>

(***************************************************************************)
(* dashboard.py: analyze_brothers_data                                     *)
(***************************************************************************)
brother_list(row) ==
    IF IsStr(row.brothers_names) THEN Split(row.brothers_names.s, ";") ELSE NaN

analyze_brothers_data(df) ==
    LET counted == [k \in 1..Len(df) |->
                        [df[k] EXCEPT !.brothers_count = ToNumeric(@)]]
        kept == SelectSeq(counted, LAMBDA row : ~IsNaN(row.brothers_count))
    IN  [k \in 1..Len(kept) |->
            [set_number |-> kept[k].set_number,
             brothers_count |-> kept[k].brothers_count,
             brothers_names |-> kept[k].brothers_names,
             brother_list |-> brother_list(kept[k]),
             total_brothers |-> IF IsStr(kept[k].brothers_names)
                                THEN IntCell(Len(brother_list(kept[k])))
                                ELSE NaN]]

AnalyzeBrothers ==
    /\ gstatus = "cleaned"
    /\ gstatus' = "analyzed"
    /\ brothers_out' = analyze_brothers_data(brothers_df)
    /\ UNCHANGED <<cells, current_set, data, raw_records, brothers_df, notGrouper>>

GrouperNext ==
    \/ \E c \in Cells : GroupCell(c)
    \/ EndOfStream
    \/ NormalizeBrothers
    \/ AnalyzeBrothers

SpecGrouper == GrouperInit /\ [][GrouperNext]_vars

(***************************************************************************)
(* Properties of the Record Grouper and of the brother-sets pipeline       *)
(***************************************************************************)
\* the glossary's Boundary Cell, stated on the Cell alone
ClaimBoundary(c) ==
    /\ c.class_tag = "idx"
    /\ LET n == Len(c.text)
           core == IF n >= 1 /\ c.text[n] = "." THEN n - 1 ELSE n
       IN  core >= 1 /\ \A k \in 1..core : c.text[k] \in Digits

ClaimKey(c) ==
    LET n == Len(c.text)
    IN  ToInt(IF c.text[n] = "." THEN SubSeq(c.text, 1, n - 1) ELSE c.text)

BoundaryPositions(cs) == {k \in 1..Len(cs) : ClaimBoundary(cs[k])}

\* the position of the next boundary Cell after position b, or the end of the stream
NextBoundary(cs, b) ==
    IF \E k \in BoundaryPositions(cs) : k > b
    THEN CHOOSE k \in BoundaryPositions(cs) :
            k > b /\ \A j \in BoundaryPositions(cs) : j > b => k <= j
    ELSE Len(cs) + 1

\* the texts of the field Cells strictly between positions lo and hi
FieldTexts(cs, lo, hi) ==
    LET f == SelectSeq(SubSeq(cs, lo + 1, hi - 1),
                       LAMBDA c : c.class_tag = "box" /\ Len(c.text) > 0)
    IN  [k \in 1..Len(f) |-> f[k].text]

FieldsOf(cs, b) == FieldTexts(cs, b, NextBoundary(cs, b))

EveryBoundaryHasField(cs) == \A b \in BoundaryPositions(cs) : FieldsOf(cs, b) # <<>>

Completed == gstatus \in {"done", "cleaned", "analyzed"}

\* C1: on a stream in which every boundary Cell is followed by at least one
\* non-empty field Cell before the next boundary Cell or the end, the grouper
\* emits exactly one RawRecord per boundary Cell, in stream order, whose fields
\* are the texts of the field Cells up to the next boundary Cell.
C1_OneRecordPerBoundary ==
    (Completed /\ EveryBoundaryHasField(cells)) =>
        LET B == BoundaryPositions(cells)
        IN  /\ Len(raw_records) = Cardinality(B)
            /\ \A n \in 1..Len(raw_records) :
                  /\ raw_records[n].key = ClaimKey(cells[NthOf(B, n)])
                  /\ raw_records[n].fields = FieldsOf(cells, NthOf(B, n))

C1_Witness ==
    /\ gstatus = "done"
    /\ EveryBoundaryHasField(cells)
    /\ Len(raw_records) = 2
    /\ raw_records[1].fields # raw_records[2].fields

\* C2: the emitted RawRecords never outnumber the boundary Cells, every emitted
\* RawRecord has at least one field, and a boundary Cell that gets no field Cell
\* before the next boundary Cell or the end yields no record.
C2_AtMostOnePerBoundary ==
    LET B == BoundaryPositions(cells)
    IN  /\ Len(data) <= Cardinality(B)
        /\ Len(raw_records) <= Cardinality(B)
        /\ \A n \in 1..Len(data) : Len(data[n].fields) >= 1 /\ data[n].count >= 1
        /\ \A n \in 1..Len(raw_records) : Len(raw_records[n].fields) >= 1
        /\ Completed =>
              LET F == {b \in B : FieldsOf(cells, b) # <<>>}
              IN  /\ Len(raw_records) = Cardinality(F)
                  /\ \A n \in 1..Len(raw_records) :
                        raw_records[n].fields = FieldsOf(cells, NthOf(F, n))

C2_Witness ==
    /\ gstatus = "done"
    /\ Len(raw_records) = 1
    /\ Cardinality(BoundaryPositions(cells)) = 3

LastBoundary(cs) ==
    IF BoundaryPositions(cs) = {} THEN 0
    ELSE CHOOSE k \in BoundaryPositions(cs) : \A j \in BoundaryPositions(cs) : j <= k

FakeBoundary(c) == c.class_tag = "idx" /\ ~ClaimBoundary(c)

\* C3: a Cell of the boundary class whose text, one trailing period stripped, is
\* not digits only neither flushes nor opens an accumulator: the accumulator
\* holds the field Cells since the last true boundary Cell, those after the
\* non-numeric Cell included, and the flushed records are those of the true
\* boundary Cells before it.
C3_NonNumericBoundaryIgnored ==
    gstatus = "running" =>
        LET lb == LastBoundary(cells)
            F == {b \in BoundaryPositions(cells) : b < lb /\ FieldsOf(cells, b) # <<>>}
        IN  IF lb = 0
            THEN ~current_set.open /\ data = <<>>
            ELSE /\ current_set.open
                 /\ current_set.key = ClaimKey(cells[lb])
                 /\ current_set.names = FieldTexts(cells, lb, Len(cells) + 1)
                 /\ Len(data) = Cardinality(F)

C3_Witness ==
    /\ gstatus = "running"
    /\ Len(cells) = 4
    /\ ClaimBoundary(cells[1])
    /\ cells[2].class_tag = "box"
    /\ FakeBoundary(cells[3]) /\ cells[3].text = <<"1", ".", ".">>
    /\ cells[4].class_tag = "box"
    /\ Len(current_set.names) = 2

HasMalformed(cs) == \E k \in 1..Len(cs) : cs[k].class_tag = "none"

\* C4: a Cell without a class attribute makes the table yield zero RawRecords,
\* the records completed before it included, and no record reaches the
\* Normalizer before the stream has ended.
C4_MalformedYieldsNothing ==
    /\ HasMalformed(cells) =>
          /\ gstatus = "error"
          /\ data = <<>> /\ raw_records = <<>> /\ brothers_df = <<>>
    /\ (raw_records # <<>> \/ brothers_df # <<>>) => Completed

C4_Witness ==
    /\ gstatus = "error"
    /\ Len(cells) = 4
    /\ ClaimBoundary(cells[1])
    /\ cells[2].class_tag = "box" /\ cells[2].text # <<>>
    /\ ClaimBoundary(cells[3])
    /\ cells[4].class_tag = "none"

HasSemicolon(t) == \E k \in 1..Len(t) : t[k] = ";"

\* f1;...;fn written out position by position
Semicolons(f) == Concat([k \in 1..Len(f) |-> IF k = 1 THEN f[k] ELSE <<";">> \o f[k]])

LeagueMatchEnd(t, p) ==
    LET n == Len(t)
        l == IF p + 1 <= n /\ t[p + 1] = "L" THEN p + 1
             ELSE IF p + 2 <= n /\ t[p + 1] = "." /\ t[p + 2] = "L" THEN p + 2
             ELSE 0
    IN  IF p > n \/ t[p] \notin {"A", "N"} \/ l = 0 THEN 0
        ELSE IF l + 1 <= n /\ t[l + 1] = "." THEN l + 1
        ELSE l

UpperCase(ch) ==
    CASE ch = "a" -> "A" [] ch = "n" -> "N" [] ch = "l" -> "L" [] OTHER -> ch

ExtractLeagueNoCase(v) ==
    IF ~IsStr(v) THEN NaN
    ELSE LET u == [k \in 1..Len(v.s) |-> UpperCase(v.s[k])]
             M == {p \in 1..Len(u) : LeagueMatchEnd(u, p) > 0}
         IN  IF M = {} THEN NaN
             ELSE LET p == CHOOSE q \in M : \A r \in M : q <= r
                  IN  StrCell(SubSeq(u, p, LeagueMatchEnd(u, p)))

\* str.extract(r"([AN]\.?L\.?)", expand=False): the first match, or NaN
ExtractLeague(v) ==
    IF ~IsStr(v) THEN NaN
    ELSE LET M == {p \in 1..Len(v.s) : LeagueMatchEnd(v.s, p) > 0}
         IN  IF M = {} THEN NaN
             ELSE LET p == CHOOSE q \in M : \A r \in M : q <= r
                  IN  StrCell(SubSeq(v.s, p, LeagueMatchEnd(v.s, p)))

KeepDots(v) == v

\* str.replace(".", "", regex=False)
RemoveDots(v) ==
    IF IsStr(v) THEN StrCell(SelectSeq(v.s, LAMBDA ch : ch # ".")) ELSE v

\* where a match of \s*\(\d+\) that starts at position p ends, or 0
SeasonCountEnd(t, p) ==
    LET n == Len(t)
        NonWs == {k \in p..n : ~IsWhitespace(t[k])}
        o == IF NonWs = {} THEN 0 ELSE CHOOSE k \in NonWs : \A j \in NonWs : k <= j
        NonDigit == {k \in (o + 1)..n : ~IsDigit(t[k])}
        c == IF NonDigit = {} THEN 0 ELSE CHOOSE k \in NonDigit : \A j \in NonDigit : k <= j
    IN  IF o = 0 \/ t[o] # "(" \/ c = 0 \/ c = o + 1 \/ t[c] # ")" THEN 0 ELSE c

\* the text from position p on, every match removed, scanning left to right
RECURSIVE RemoveFrom(_, _)
RemoveFrom(t, p) ==
    IF p > Len(t) THEN <<>>
    ELSE IF SeasonCountEnd(t, p) > 0 THEN RemoveFrom(t, SeasonCountEnd(t, p) + 1)
    ELSE <<t[p]>> \o RemoveFrom(t, p + 1)

RemoveTrailingSeasonCount(v) ==
    IF ~IsStr(v) THEN v
    ELSE LET E == {p \in 1..Len(v.s) : SeasonCountEnd(v.s, p) = Len(v.s)}
         IN  IF E = {} THEN v
             ELSE StrCell(SubSeq(v.s, 1, (CHOOSE q \in E : \A r \in E : q <= r) - 1))

\* str.replace(r'\s*\(\d+\)', '', regex=True)
RemoveSeasonCount(v) == IF IsStr(v) THEN StrCell(RemoveFrom(v.s, 1)) ELSE v

\* str.strip() on a cell
StripCell(v) == IF IsStr(v) THEN StrCell(Strip(v.s)) ELSE v

\* astype(int) on a cell: truncation toward zero
AsInt(v) == IF IsFrac(v) THEN IntCell(v.fr) ELSE v

\* the frame with its index: row k of the input carries label k
WithIndex(df) ==
    [k \in 1..Len(df) |->
        [idx |-> k, year |-> df[k].year, league |-> df[k].league,
         team |-> df[k].team, player_name |-> df[k].player_name]]

FillNaYear(df) ==
    [k \in 1..Len(df) |-> [df[k] EXCEPT !.year = IF IsNaN(@) THEN IntCell(2023) ELSE @]]

\* dropna(subset=["year"])
DropNaYear(df) == SelectSeq(df, LAMBDA row : ~IsNaN(row.year))

clean_mvp_data(df) ==
    LET numeric == [k \in 1..Len(df) |-> [WithIndex(df)[k] EXCEPT !.year = ToNumeric(@)]]
        kept == DropNaYear(numeric)
    IN  IF \E k \in 1..Len(kept) : IsInf(kept[k].year)
        THEN [status |-> "raised"]      \* astype(int) on a non-finite value
        ELSE [status |-> "ok",
              rows |-> [k \in 1..Len(kept) |->
                          [idx |-> kept[k].idx,
                           year |-> AsInt(kept[k].year),
                           league |-> RemoveDots(ExtractLeague(kept[k].league)),
                           team |-> RemoveSeasonCount(kept[k].team),
                           player_name |-> StripCell(kept[k].player_name)]]]

y_1999 == StrCell(<<"1", "9", "9", "9">>)
y_text == StrCell(<<"n", "/", "a">>)
y_frac == StrCell(<<"1", "9", "9", "9", ".", "5">>)
y_inf == StrCell(<<"i", "n", "f">>)

l_A_L_ == StrCell(<<"A", ".", "L", ".">>)
l_AL == StrCell(<<"A", "L">>)
l_a_l_ == StrCell(<<"a", ".", "l", ".">>)
l_NL_West == StrCell(<<"N", "L", " ", "W", "e", "s", "t">>)
l_Pacific == StrCell(<<"P", "a", "c", "i", "f", "i", "c">>)
l_xN_L == StrCell(<<"x", "N", ".", "L">>)
l_A__L == StrCell(<<"A", ".", ".", "L">>)

t_Dodgers_3 == StrCell(<<"D", "o", "d", "g", "e", "r", "s", " ", "(", "3", ")">>)
t_Do3 == StrCell(<<"D", "o", "(", "3", ")">>)
t_Do_3_x == StrCell(<<"D", "o", " ", "(", "3", ")", " ", "x">>)
t_lead == StrCell(<<" ", "D", "o">>)
t_trail == StrCell(<<"D", "o", " ">>)
t_empty_paren == StrCell(<<"D", "o", " ", "(", ")">>)
t_alpha_paren == StrCell(<<"D", "o", " ", "(", "a", ")">>)
t_two == StrCell(<<"D", "o", " ", "(", "1", ")", " ", " ", "(", "2", "3", ")">>)
t_nested == StrCell(<<"D", "o", "(", "(", "1", ")", "2", ")">>)
t_plain == StrCell(<<"D", "o">>)

p_plain == StrCell(<<"x">>)
p_padded == StrCell(<<" ", "x", " ">>)

YearCells == {y_1999, y_text, y_frac, y_inf, NaN, IntCell(2001)}
LeagueCells == {l_A_L_, l_AL, l_a_l_, l_NL_West, l_Pacific, l_xN_L, l_A__L, NaN}
TeamCells == {t_Dodgers_3, t_Do3, t_Do_3_x, t_lead, t_trail, t_empty_paren,
              t_alpha_paren, t_two, t_nested, t_plain, NaN}

\* the rows a loaded mvp_awards frame may hold
MvpRows ==
    {[year |-> y, league |-> l_A_L_, team |-> t_plain, player_name |-> p_plain] :
        y \in YearCells}
    \cup {[year |-> y_1999, league |-> l, team |-> t_plain, player_name |-> p_plain] :
        l \in LeagueCells}
    \cup {[year |-> y_1999, league |-> l_A_L_, team |-> t, player_name |-> p_plain] :
        t \in TeamCells}
    \cup {[year |-> y_1999, league |-> l_A_L_, team |-> t_plain, player_name |-> p_padded]}

MvpInit ==
    /\ mvp_df \in UNION {[1..n -> MvpRows] : n \in 0..MaxMvpRows}
    /\ mvp_out = NotRun
    /\ GrouperIdle
    /\ ImportIdle

\* main: mvp_awards = clean_mvp_data(data['mvp_awards'])
CleanMvp ==
    /\ mvp_out = NotRun
    /\ mvp_out' = clean_mvp_data(mvp_df)
    /\ UNCHANGED <<mvp_df, notMvp>>

MvpNext == CleanMvp

SpecMvp == MvpInit /\ [][MvpNext]_vars

(***************************************************************************)
(* Properties of clean_mvp_data                                            *)
(***************************************************************************)
MvpCleaned == mvp_out # NotRun /\ mvp_out.status = "ok"

\* the league text the output row came from (the frame's index names the row)
LeagueIn(row) == mvp_df[row.idx].league
TeamIn(row) == mvp_df[row.idx].team

AL == [s |-> <<"A", "L">>]
NL == [s |-> <<"N", "L">>]

C7_LeagueCodomain ==
    MvpCleaned =>
        \A k \in 1..Len(mvp_out.rows) : mvp_out.rows[k].league \in {AL, NL, NaN}

C7_Witness ==
    /\ MvpCleaned
    /\ \E k \in 1..Len(mvp_out.rows) :
          /\ LeagueIn(mvp_out.rows[k]) = l_xN_L
          /\ mvp_out.rows[k].league = NL
    /\ \E k \in 1..Len(mvp_out.rows) :
          /\ LeagueIn(mvp_out.rows[k]) = l_a_l_
          /\ mvp_out.rows[k].league = NaN

\* the text without a suffix " (<digits>)" at its very end
ClaimDropSuffix(t) ==
    LET n == Len(t)
        S == {p \in 1..n : /\ p + 3 <= n
                           /\ t[p] = " " /\ t[p + 1] = "(" /\ t[n] = ")"
                           /\ \A k \in (p + 2)..(n - 1) : t[k] \in Digits}
    IN  IF S = {} THEN t ELSE SubSeq(t, 1, (CHOOSE p \in S : TRUE) - 1)

\* the text without the spaces at its two ends
ClaimTrim(t) ==
    LET K == {k \in 1..Len(t) : t[k] # " "}
    IN  IF K = {} THEN <<>>
        ELSE SubSeq(t, CHOOSE a \in K : \A b \in K : a <= b,
                       CHOOSE a \in K : \A b \in K : a >= b)

\* C8 as stated: the team is the text with only a trailing " (<digits>)" removed
\* and the surrounding whitespace trimmed.
C8_TeamTrailingSuffixAndTrim ==
    MvpCleaned =>
        \A k \in 1..Len(mvp_out.rows) :
            LET row == mvp_out.rows[k]
            IN  "s" \in DOMAIN TeamIn(row) =>
                    row.team = [s |-> ClaimTrim(ClaimDropSuffix(TeamIn(row).s))]

\* what str.replace(r'\s*\(\d+\)', '') makes of each team text
ExpectedTeam(v) ==
    CASE v = t_Dodgers_3 -> [s |-> <<"D", "o", "d", "g", "e", "r", "s">>]
      [] v = t_Do3 -> [s |-> <<"D", "o">>]
      [] v = t_Do_3_x -> [s |-> <<"D", "o", " ", "x">>]
      [] v = t_two -> [s |-> <<"D", "o">>]
      [] v = t_nested -> [s |-> <<"D", "o", "(", "2", ")">>]
      [] OTHER -> v

\* C8 amended: every "(<digits>)" is removed together with the whitespace right
\* before it, wherever it stands, and nothing else changes: "Dodgers (3)" gives
\* "Dodgers", "Do (3) x" gives "Do x", and whitespace at the ends of the text is
\* kept.
C8_TeamEveryCountRemoved ==
    MvpCleaned =>
        \A k \in 1..Len(mvp_out.rows) :
            mvp_out.rows[k].team = ExpectedTeam(TeamIn(mvp_out.rows[k]))

C8_Witness ==
    /\ MvpCleaned
    /\ Len(mvp_out.rows) = 2
    /\ TeamIn(mvp_out.rows[1]) = t_Do_3_x
    /\ mvp_out.rows[1].team = [s |-> <<"D", "o", " ", "x">>]
    /\ TeamIn(mvp_out.rows[2]) = t_lead
    /\ mvp_out.rows[2].team = t_lead

ClaimUnparsable(v) == v = NaN \/ v = y_text

FallbackYear == 2023
MinYear == 1900
MaxYear == 2025
MaxGames == 200

DropDuplicatesKeepLast(rows) ==
    LET K == {k \in 1..Len(rows) :
                ~\E j \in (k + 1)..Len(rows) : rows[j].cell = rows[k].cell}
    IN  [n \in 1..Cardinality(K) |-> rows[NthOf(K, n)]]

\* drop_duplicates(): the first of the rows equal in every column is kept
DropDuplicates(rows) ==
    LET K == {k \in 1..Len(rows) : ~\E j \in 1..(k - 1) : rows[j].cell = rows[k].cell}
    IN  [n \in 1..Cardinality(K) |-> rows[NthOf(K, n)]]

\* df[col] = df[col].fillna(v); KeyError when the column is missing
FillNa(st, col, v) ==
    IF st.err THEN st
    ELSE IF col \notin st.cols THEN [st EXCEPT !.err = TRUE]
    ELSE [st EXCEPT !.rows =
            [k \in 1..Len(st.rows) |->
                [idx |-> st.rows[k].idx,
                 cell |-> [c \in st.cols |->
                            IF c = col /\ IsNaN(st.rows[k].cell[c]) THEN v
                            ELSE st.rows[k].cell[c]]]]]

\* df[col] = pd.to_numeric(df[col], errors='coerce').fillna(default).astype(int);
\* KeyError when the column is missing, astype raises on a non-finite value
ToIntColumn(st, col, default) ==
    IF st.err THEN st
    ELSE IF col \notin st.cols THEN [st EXCEPT !.err = TRUE]
    ELSE LET num(k) ==
                 LET v == ToNumeric(st.rows[k].cell[col])
                 IN  IF IsNaN(v) THEN IntCell(default) ELSE v
         IN  IF \E k \in 1..Len(st.rows) : IsInf(num(k))
             THEN [st EXCEPT !.err = TRUE]
             ELSE [st EXCEPT !.rows =
                     [k \in 1..Len(st.rows) |->
                         [idx |-> st.rows[k].idx,
                          cell |-> [c \in st.cols |->
                                     IF c = col THEN AsInt(num(k))
                                     ELSE st.rows[k].cell[c]]]]]

\* df[col] = 0 for a column the frame does not have
AddZeroColumn(st, col) ==
    IF st.err THEN st
    ELSE [cols |-> st.cols \cup {col},
          rows |-> [k \in 1..Len(st.rows) |->
                      [idx |-> st.rows[k].idx,
                       cell |-> [c \in st.cols \cup {col} |->
                                  IF c = col THEN IntCell(0) ELSE st.rows[k].cell[c]]]],
          err |-> FALSE]

\* the loop over numeric_columns
NumericColumn(st, col) ==
    IF col \in st.cols THEN ToIntColumn(st, col, 0) ELSE AddZeroColumn(st, col)

Try(df) == [cols |-> df.cols, rows |-> DropDuplicates(df.rows), err |-> FALSE]

txt_unknown == <<"u", "n", "k", "n", "o", "w", "n">>
txt_general == <<"g", "e", "n", "e", "r", "a", "l">>
txt_UnknownPlayer == <<"U", "n", "k", "n", "o", "w", "n", " ", "P", "l", "a", "y", "e", "r">>
txt_UnknownTeam == <<"U", "n", "k", "n", "o", "w", "n", " ", "T", "e", "a", "m">>
txt_0 == <<"0">>
txt_MLB == <<"M", "L", "B">>
txt_MLBAverage == <<"M", "L", "B", " ", "A", "v", "e", "r", "a", "g", "e">>
txt_league_stats == <<"l", "e", "a", "g", "u", "e", "_", "s", "t", "a", "t", "s">>

YearInRange(r) == r.cell["year"].i >= MinYear /\ r.cell["year"].i <= MaxYear

clean_events_data(df) ==
    LET s1 == ToIntColumn(Try(df), "year", FallbackYear)
        s2 == FillNa(s1, "event_type", StrCell(txt_unknown))
        s3 == FillNa(s2, "description", StrCell(<<>>))
        s4 == FillNa(s3, "value", StrCell(<<>>))
        s5 == FillNa(s4, "category", StrCell(txt_general))
    IN  IF s5.err THEN s5
        ELSE [s5 EXCEPT !.rows = SelectSeq(s5.rows, YearInRange)]

HasPlayerName(r) ==
    ~IsStr(r.cell["player_name"]) \/ Strip(r.cell["player_name"].s) # <<>>

clean_players_data(df) ==
    LET s1 == FillNa(Try(df), "player_name", StrCell(txt_UnknownPlayer))
        s2 == FillNa(s1, "stat_value", StrCell(txt_0))
        s3 == FillNa(s2, "stat_type", StrCell(txt_unknown))
        s4 == FillNa(s3, "team", StrCell(txt_UnknownTeam))
        s5 == FillNa(s4, "category", StrCell(txt_general))
        s6 == FillNa(s5, "rank", StrCell(txt_0))
    IN  IF s6.err THEN s6
        ELSE [s6 EXCEPT !.rows = SelectSeq(s6.rows, HasPlayerName)]

StatisticsColumns == {"year", "team", "category", "games_played", "wins", "losses", "league"}

\* a sample series that starts one year late
SampleStatisticsLate ==
    [cols |-> StatisticsColumns,
     rows |-> [k \in 1..5 |->
                 [idx |-> k,
                  cell |-> [c \in StatisticsColumns |->
                             CASE c = "year" -> IntCell(2020 + k)
                               [] c = "team" -> StrCell(txt_MLBAverage)
                               [] c = "category" -> StrCell(txt_league_stats)
                               [] c = "games_played" -> IntCell(162)
                               [] c = "wins" -> IntCell(81)
                               [] c = "losses" -> IntCell(81)
                               [] c = "league" -> StrCell(txt_MLB)]]]]

\* the sample series created for an empty frame
SampleStatistics ==
    [cols |-> StatisticsColumns,
     rows |-> [k \in 1..5 |->
                 [idx |-> k,
                  cell |-> [c \in StatisticsColumns |->
                             CASE c = "year" -> IntCell(2019 + k)
                               [] c = "team" -> StrCell(txt_MLBAverage)
                               [] c = "category" -> StrCell(txt_league_stats)
                               [] c = "games_played" -> IntCell(162)
                               [] c = "wins" -> IntCell(81)
                               [] c = "losses" -> IntCell(81)
                               [] c = "league" -> StrCell(txt_MLB)]]]]

GamesInRange(r) == r.cell["games_played"].i >= 0 /\ r.cell["games_played"].i <= MaxGames

WinsLossesInRange(r) == r.cell["wins"].i >= 0 /\ r.cell["losses"].i >= 0

clean_statistics_data(df) ==
    LET s0 == Try(IF df.rows = <<>> \/ df.cols = {} THEN SampleStatistics ELSE df)
        s1 == ToIntColumn(s0, "year", FallbackYear)
        s2 == FillNa(s1, "team", StrCell(txt_UnknownTeam))
        s3 == FillNa(s2, "category", StrCell(txt_general))
        s4 == FillNa(s3, "league", StrCell(txt_MLB))
        s5 == NumericColumn(s4, "games_played")
        s6 == NumericColumn(s5, "wins")
        s7 == NumericColumn(s6, "losses")
    IN  IF s7.err THEN s7
        ELSE [s7 EXCEPT !.rows =
                SelectSeq(SelectSeq(SelectSeq(s7.rows, YearInRange), GamesInRange),
                          WinsLossesInRange)]

\* the dispatch on table_name in import_csv_to_table
Clean(t, df) ==
    CASE t = "events" -> clean_events_data(df)
      [] t = "players" -> clean_players_data(df)
      [] t = "statistics" -> clean_statistics_data(df)

(***************************************************************************)
(* database_import.py: validate_csv_file, import_csv_to_table              *)
(* (the database accepts every frame: no storage error is raised here)     *)
(***************************************************************************)
\* pd.read_csv: the rows of the file under the default index 1..n
ReadCsv(file) ==
    [cols |-> file.cols,
     rows |-> [k \in 1..Len(file.rows) |-> [idx |-> k, cell |-> file.rows[k]]]]

\* a validation that only looks whether the file is there
FileExists(file) == file.exists

\* the file is there and read_csv gives a frame that is not empty
validate_csv_file(file) == file.exists /\ file.rows # <<>> /\ file.cols # {}

\* if_exists='append': the rows are added to those the table holds
ToSqlAppend(table, df) ==
    [cols |-> df.cols,
     rows |-> table.rows \o [k \in 1..Len(df.rows) |-> df.rows[k].cell]]

\* df.to_sql(table_name, conn, if_exists='replace', index=False): the table
\* is dropped and made anew from the frame, its columns those of the frame
ToSql(table, df) ==
    [cols |-> df.cols, rows |-> [k \in 1..Len(df.rows) |-> df.rows[k].cell]]

\* the table does not exist
NoTable == [cols |-> {}, rows |-> <<>>]

\* the statements of to_sql(if_exists='replace') on an existing table, each
\* committed as it is executed: DROP TABLE, CREATE TABLE, then the INSERTs in
\* one transaction that is rolled back when an INSERT fails
ToSqlFailed(table, df, failed) ==
    CASE failed = "drop" -> table
      [] failed = "create" -> NoTable
      [] failed = "insert" -> [cols |-> df.cols, rows |-> <<>>]

\* the statement of to_sql on table t that the store fails on, or "none"
FailedStatement(t) ==
    IF fault.op \in {"drop", "create", "insert"} /\ fault.table = t THEN fault.op
    ELSE "none"

\* the counts the log lines give: "Read n rows" (228), "Removed d duplicate
\* rows" when d > 0 (116, 144, 191), "cleaned - m rows ready" when cleaning
\* did not raise (128, 157, 212)
LoggedCounts(n, d, m, raised) ==
    [name \in {"input_count"}
                \cup (IF d > 0 THEN {"duplicate_count"} ELSE {})
                \cup (IF raised THEN {} ELSE {"output_count"}) |->
        CASE name = "input_count" -> n
          [] name = "duplicate_count" -> d
          [] name = "output_count" -> m]

\* the tables run_import handles before table t (the order of csv_files)
Before(t) ==
    CASE t = "events" -> {}
      [] t = "players" -> {"events"}
      [] t = "statistics" -> {"events", "players"}

import_csv_to_table(t) ==
    /\ pc = "import"
    /\ imported[t] = "pending"
    /\ \A u \in Before(t) : imported[u] # "pending"
    /\ IF ~validate_csv_file(csv[t])
       THEN /\ imported' = [imported EXCEPT ![t] = "False"]
            /\ UNCHANGED <<db, cleaned, clean_errors, reported, loads, indexes>>
       ELSE LET read == ReadCsv(csv[t])
                df == Clean(t, read)
                n == Len(read.rows)
            IN  /\ cleaned' = [cleaned EXCEPT ![t] = [cols |-> df.cols, rows |-> df.rows]]
                /\ clean_errors' = IF df.err THEN clean_errors \cup {t} ELSE clean_errors
                /\ reported' = [reported EXCEPT ![t] =
                                   LoggedCounts(n, n - Len(DropDuplicates(read.rows)),
                                                Len(df.rows), df.err)]
                /\ IF Len(df.rows) = 0
                   THEN /\ imported' = [imported EXCEPT ![t] = "False"]
                        /\ UNCHANGED <<db, loads, indexes>>
                   ELSE IF FailedStatement(t) # "none"
                   THEN /\ db' = [db EXCEPT ![t] =
                                     ToSqlFailed(db[t], df, FailedStatement(t))]
                        /\ indexes' = IF FailedStatement(t) = "drop" THEN indexes
                                       ELSE {i \in indexes : i[1] # t}
                        /\ imported' = [imported EXCEPT ![t] = "False"]
                        /\ UNCHANGED loads
                   ELSE /\ db' = [db EXCEPT ![t] = ToSql(db[t], df)]
                        /\ indexes' = {i \in indexes : i[1] # t}
                        /\ loads' = [loads EXCEPT ![t] = loads[t] + 1]
                        /\ imported' = [imported EXCEPT ![t] = "True"]
    /\ UNCHANGED <<csv, run, pc, conn, closes, ret, exit_status, fault, notImport>>

c_1850 == StrCell(<<"1", "8", "5", "0">>)
c_2023 == StrCell(<<"2", "0", "2", "3">>)
c_2026 == StrCell(<<"2", "0", "2", "6">>)
c_bad == StrCell(<<"n", "o", "t", "_", "a", "_", "n", "u", "m", "b", "e", "r">>)
c_inf == StrCell(<<"i", "n", "f">>)
c_text == StrCell(<<"x">>)
c_blank == StrCell(<<" ", " ">>)
c_1900 == StrCell(<<"1", "9", "0", "0">>)
c_2025 == StrCell(<<"2", "0", "2", "5">>)
c_162 == StrCell(<<"1", "6", "2">>)
c_200 == StrCell(<<"2", "0", "0">>)
c_0 == StrCell(<<"0">>)
c_250 == StrCell(<<"2", "5", "0">>)
c_81 == StrCell(<<"8", "1">>)
c_minus1 == StrCell(<<"-", "1">>)

\* the year cells a CSV may hold
CsvYears == {c_1850, c_1900, c_2023, c_2025, c_2026, c_bad, c_inf, NaN}

EventsColumns == {"year", "event_type", "description", "value", "category"}
PlayersColumns == {"player_name", "stat_value", "stat_type", "team", "category", "rank"}

EventRow(y, e) ==
    [c \in EventsColumns |-> CASE c = "year" -> y [] c = "event_type" -> e [] OTHER -> c_text]

PlayerRow(n, s) ==
    [c \in PlayersColumns |->
        CASE c = "player_name" -> n [] c = "stat_type" -> s [] OTHER -> c_text]

StatRow(y, g, w, l) ==
    [c \in StatisticsColumns |->
        CASE c = "year" -> y [] c = "games_played" -> g [] c = "wins" -> w
          [] c = "losses" -> l [] OTHER -> c_text]

\* the rows a CSV file of table t may hold, all columns present
CsvRows(t) ==
    CASE t = "events" ->
            {EventRow(y, c_text) : y \in CsvYears} \cup {EventRow(c_2023, NaN)}
                \cup {[EventRow(c_2023, c_text) EXCEPT ![c] = NaN] :
                         c \in {"description", "category"}}
      [] t = "players" ->
            {PlayerRow(n, c_text) : n \in {c_text, c_blank, NaN}}
                \cup {PlayerRow(c_text, NaN)}
                \cup {[PlayerRow(c_text, c_text) EXCEPT !["category"] = NaN]}
      [] t = "statistics" ->
            {StatRow(y, c_162, c_81, c_81) : y \in CsvYears}
                \cup {StatRow(c_2023, g, c_81, c_81) :
                         g \in {c_0, c_200, c_250, c_minus1, c_bad, c_inf, NaN}}
                \cup {StatRow(c_2023, c_162, w, c_81) : w \in {c_minus1, c_bad, NaN}}
                \cup {StatRow(c_2023, c_162, c_81, l) : l \in {c_minus1, c_bad}}
                \cup {[StatRow(c_2023, c_162, c_81, c_81) EXCEPT !["category"] = NaN]}

\* the column sets a CSV file of table t may have: all, or one column missing
CsvColumns(t) ==
    CASE t = "events" -> {EventsColumns, EventsColumns \ {"value"}}
      [] t = "players" -> {PlayersColumns, PlayersColumns \ {"rank"}}
      [] t = "statistics" ->
            {StatisticsColumns, StatisticsColumns \ {"wins"}, StatisticsColumns \ {"league"}}

\* the files data/raw/<t>.csv may be
CsvFiles(t) ==
    {NoFile} \cup
    {[exists |-> TRUE, cols |-> cs,
      rows |-> [k \in 1..Len(rs) |-> [c \in cs |-> rs[k][c]]]] :
        cs \in CsvColumns(t),
        rs \in UNION {[1..n -> CsvRows(t)] : n \in 0..MaxCsvRows}}

\* a well-formed one-row file of table t
SampleFile(t) ==
    [exists |-> TRUE,
     cols |-> CASE t = "events" -> EventsColumns [] t = "players" -> PlayersColumns
                [] t = "statistics" -> StatisticsColumns,
     rows |-> CASE t = "events" -> <<EventRow(c_2023, c_text)>>
                [] t = "players" -> <<PlayerRow(c_text, c_text)>>
                [] t = "statistics" -> <<StatRow(c_2023, c_162, c_81, c_81)>>]

\* connected, tables created, the input files as the scraper or a user left them
ImportInit ==
    /\ \E t \in Tables : \E f \in CsvFiles(t) :
          csv = [u \in Tables |-> IF u = t THEN f ELSE SampleFile(u)]
    /\ db = [t \in Tables |-> [cols |-> SchemaColumns(t), rows |-> <<>>]]
    /\ cleaned = [t \in Tables |-> NotRun]
    /\ imported = [t \in Tables |-> "pending"]
    /\ clean_errors = {}
    /\ reported = [t \in Tables |-> NoCounts]
    /\ run = 1
    /\ loads = [t \in Tables |-> 0]
    /\ InLoop
    /\ GrouperIdle
    /\ MvpIdle

ImportNext == \E t \in Tables : import_csv_to_table(t)

SpecImport == ImportInit /\ [][ImportNext]_vars

(***************************************************************************)
(* Properties of the import of events and statistics                       *)
(***************************************************************************)
\* a year text that is missing or is no number at all
ClaimYearUnparsable(v) == v = NaN \/ v = c_bad

\* row k of the file is the first of its duplicates
FirstOccurrence(file, k) == \A j \in 1..(k - 1) : file.rows[j] # file.rows[k]

\* nothing but the year can make the range check reject the row
OtherRangesHold(cell) ==
    /\ "games_played" \in DOMAIN cell => cell["games_played"] = c_162
    /\ "wins" \in DOMAIN cell => cell["wins"] = c_81
    /\ "losses" \in DOMAIN cell => cell["losses"] = c_81

YearDefaulted(t) ==
    \A k \in 1..Len(csv[t].rows) :
        (/\ ClaimYearUnparsable(csv[t].rows[k]["year"])
         /\ FirstOccurrence(csv[t], k)
         /\ OtherRangesHold(csv[t].rows[k]))
        => \E n \in 1..Len(cleaned[t].rows) :
              /\ cleaned[t].rows[n].idx = k
              /\ cleaned[t].rows[n].cell["year"] = [i |-> 2023]

\* C9: in the import of events or statistics a row whose year text cannot be
\* parsed is not rejected; it is in the cleaned output with year 2023.
C9_UnparsableYearDefaulted ==
    \A t \in {"events", "statistics"} : cleaned[t] # NotRun => YearDefaulted(t)

\* the same, for the calls of clean_* that did not end in the exception handler
C9_DefaultedUnlessCleaningRaised ==
    \A t \in {"events", "statistics"} :
        (cleaned[t] # NotRun /\ t \notin clean_errors) => YearDefaulted(t)

C9_Witness ==
    /\ cleaned["events"] # NotRun
    /\ "events" \notin clean_errors
    /\ Len(csv["events"].rows) = 2
    /\ csv["events"].rows[2]["year"] = c_bad
    /\ csv["events"].rows[1]["year"] = c_1850
    /\ Len(cleaned["events"].rows) = 1
    /\ cleaned["events"].rows[1].idx = 2
    /\ cleaned["events"].rows[1].cell["year"] = [i |-> 2023]

(***************************************************************************)
(* Properties of clean_statistics_data: range validation                   *)
(***************************************************************************)
\* the integer the Field Normalizer assigns to a numeric text: the parsed
\* value, or the default for a missing or unparsable one
ClaimInt(v, default) ==
    LET n == ToNumeric(v)
    IN  IF IsInt(n) THEN n.i ELSE IF IsFrac(n) THEN n.fr ELSE default

ClaimStatInt(cell, col, default) ==
    IF col \in DOMAIN cell THEN ClaimInt(cell[col], default) ELSE default

\* the four range conditions on the normalized values of one statistics row
ClaimStatInRange(cell) ==
    /\ ClaimStatInt(cell, "year", 2023) >= 1900
    /\ ClaimStatInt(cell, "year", 2023) <= 2025
    /\ ClaimStatInt(cell, "games_played", 0) >= 0
    /\ ClaimStatInt(cell, "games_played", 0) <= 200
    /\ ClaimStatInt(cell, "wins", 0) >= 0
    /\ ClaimStatInt(cell, "losses", 0) >= 0

\* the labels of the rows of the frame clean_<t>_data returned
OutputIdx(t) == {cleaned[t].rows[n].idx : n \in 1..Len(cleaned[t].rows)}

StatisticsRangeValidated ==
    /\ \A k \in OutputIdx("statistics") : ClaimStatInRange(csv["statistics"].rows[k])
    /\ \A k \in 1..Len(csv["statistics"].rows) :
          (FirstOccurrence(csv["statistics"], k)
              /\ ClaimStatInRange(csv["statistics"].rows[k]))
          => k \in OutputIdx("statistics")

\* C11: a record is in the output of clean_statistics_data only if
\* 1900 <= year <= 2025, 0 <= games_played <= 200, wins >= 0 and losses >= 0
\* (bounds inclusive), and every non-duplicate record that satisfies the four
\* conditions is in the output.
C11_StatisticsRangeValidated ==
    cleaned["statistics"] # NotRun => StatisticsRangeValidated

\* the same, for the calls of clean_statistics_data that did not end in the
\* exception handler
C11_RangeValidatedUnlessCleaningRaised ==
    (cleaned["statistics"] # NotRun /\ "statistics" \notin clean_errors)
        => StatisticsRangeValidated

\* years 1900 and 2025 are kept by a call that did not raise
C11_Witness ==
    /\ cleaned["statistics"] # NotRun
    /\ "statistics" \notin clean_errors
    /\ Len(csv["statistics"].rows) = 2
    /\ csv["statistics"].rows[1]["year"] = c_1900
    /\ csv["statistics"].rows[2]["year"] = c_2025
    /\ OutputIdx("statistics") = {1, 2}

(***************************************************************************)
(* Properties of the clean_* functions: deduplication                      *)
(***************************************************************************)
\* C12: the output of clean_events_data, clean_players_data and
\* clean_statistics_data holds no two records that are equal in every field,
\* records that became equal only by normalization included.
C12_NoEqualCleanRecords ==
    \A t \in Tables :
        cleaned[t] # NotRun =>
            \A m, n \in 1..Len(cleaned[t].rows) :
                m # n => cleaned[t].rows[m].cell # cleaned[t].rows[n].cell

\* what drop_duplicates does give: no two output rows were equal as read
C12_NoEqualRawRecords ==
    \A t \in Tables :
        cleaned[t] # NotRun =>
            \A m, n \in OutputIdx(t) : m # n => csv[t].rows[m] # csv[t].rows[n]

\* two rows that differ only in an unparsable year are both in the output
C12_Witness ==
    /\ cleaned["events"] # NotRun
    /\ "events" \notin clean_errors
    /\ Len(csv["events"].rows) = 2
    /\ csv["events"].rows[1]["year"] = NaN
    /\ csv["events"].rows[2]["year"] = c_bad
    /\ Len(cleaned["events"].rows) = 2
    /\ cleaned["events"].rows[1].cell = cleaned["events"].rows[2].cell

\* the record clean_<t>_data makes of one row when the row is cleaned alone
NormalOf(t, cols, cell) ==
    Clean(t, [cols |-> cols, rows |-> <<[idx |-> 1, cell |-> cell]>>]).rows

\* row j of the file stands for the same record as row k
SameRecord(t, j, k) ==
    \/ csv[t].rows[j] = csv[t].rows[k]
    \/ NormalOf(t, csv[t].cols, csv[t].rows[j]) = NormalOf(t, csv[t].cols, csv[t].rows[k])

\* C13: deduplication is stable first-wins: the output rows keep the relative
\* order of the input, a row that is kept is the first of the rows equal to
\* it, and of the rows that stand for the same record the first is kept.
C13_StableFirstWins ==
    \A t \in Tables :
        cleaned[t] # NotRun =>
            /\ \A n \in 1..(Len(cleaned[t].rows) - 1) :
                  cleaned[t].rows[n].idx < cleaned[t].rows[n + 1].idx
            /\ \A k \in OutputIdx(t) :
                  /\ k \in 1..Len(csv[t].rows)
                  /\ FirstOccurrence(csv[t], k)
                  /\ \E j \in OutputIdx(t) :
                        /\ SameRecord(t, j, k)
                        /\ \A i \in 1..(j - 1) : ~SameRecord(t, i, k)

\* a players file whose second row repeats the first: the first is kept
C13_Witness ==
    /\ cleaned["players"] # NotRun
    /\ Len(csv["players"].rows) = 2
    /\ csv["players"].rows[1] = csv["players"].rows[2]
    /\ Len(cleaned["players"].rows) = 1
    /\ cleaned["players"].rows[1].idx = 1

(***************************************************************************)
(* Properties of clean_players_data: the required player name              *)
(***************************************************************************)
ClaimBlank(v) == IsStr(v) /\ Strip(v.s) = <<>>

\* the input cell holds no player name
ClaimNoName(v) == IsNaN(v) \/ ClaimBlank(v)

\* C14: every record whose player_name is missing, or is empty after
\* trimming, is dropped: no record in the output of clean_players_data stands
\* for an input record that had no player name.
C14_NamelessPlayersDropped ==
    cleaned["players"] # NotRun =>
        \A k \in OutputIdx("players") : ~ClaimNoName(csv["players"].rows[k]["player_name"])

\* what the code gives when it does not raise: a whitespace-only name is
\* dropped, a missing name is kept as 'Unknown Player'
C14_BlankDroppedMissingFilled ==
    (cleaned["players"] # NotRun /\ "players" \notin clean_errors) =>
        /\ \A k \in OutputIdx("players") :
              ~ClaimBlank(csv["players"].rows[k]["player_name"])
        /\ \A k \in 1..Len(csv["players"].rows) :
              (IsNaN(csv["players"].rows[k]["player_name"]) /\ FirstOccurrence(csv["players"], k))
              => \E n \in 1..Len(cleaned["players"].rows) :
                    /\ cleaned["players"].rows[n].idx = k
                    /\ cleaned["players"].rows[n].cell["player_name"]
                          = StrCell(txt_UnknownPlayer)

\* a row without a name and a row with a blank name: the first is kept
C14_Witness ==
    /\ cleaned["players"] # NotRun
    /\ "players" \notin clean_errors
    /\ Len(csv["players"].rows) = 2
    /\ csv["players"].rows[1]["player_name"] = NaN
    /\ csv["players"].rows[2]["player_name"] = c_blank
    /\ OutputIdx("players") = {1}

(***************************************************************************)
(* Properties of import_csv_to_table: what reaches the tables              *)
(***************************************************************************)
\* the CleanRecord invariant on one stored row of table t
CleanRecordInvariant(t, row) ==
    /\ t \in {"events", "statistics"} =>
          /\ "year" \in DOMAIN row
          /\ IsInt(row["year"])
          /\ row["year"].i >= 1900
          /\ row["year"].i <= 2025
    /\ t = "statistics" =>
          /\ "games_played" \in DOMAIN row
          /\ IsInt(row["games_played"])
          /\ row["games_played"].i >= 0

TableInvariant(t) ==
    \A n \in 1..Len(db[t].rows) : CleanRecordInvariant(t, db[t].rows[n])

\* C15: every record that import loads into a destination table satisfies
\* the CleanRecord invariant (1900 <= year <= 2025 for events and statistics,
\* games_played >= 0 for statistics), on every path through cleaning.
C15_LoadedRecordsValid ==
    \A t \in Tables : imported[t] = "True" => TableInvariant(t)

\* the same, for the imports whose cleaning did not end in the exception handler
C15_ValidUnlessCleaningRaised ==
    \A t \in Tables : (imported[t] = "True" /\ t \notin clean_errors) => TableInvariant(t)

\* an events file without the value column: the year 1850 is loaded
C15_Witness ==
    /\ imported["events"] = "True"
    /\ "events" \in clean_errors
    /\ "value" \notin csv["events"].cols
    /\ Len(db["events"].rows) = 1
    /\ db["events"].rows[1]["year"] = IntCell(1850)

(***************************************************************************)
(* Properties of clean_statistics_data: the numeric stat fields            *)
(***************************************************************************)
StatFields == {"games_played", "wins", "losses"}

\* a stat text that is missing or is no number at all
ClaimStatUnparsable(v) == v = NaN \/ v = c_bad

\* the output row that stands for row k of the file has 0 in column col
ZeroInOutput(k, col) ==
    \E n \in 1..Len(cleaned["statistics"].rows) :
        /\ cleaned["statistics"].rows[n].idx = k
        /\ col \in DOMAIN cleaned["statistics"].rows[n].cell
        /\ cleaned["statistics"].rows[n].cell[col] = IntCell(0)

StatFieldsDefaulted ==
    \A k \in 1..Len(csv["statistics"].rows) : \A col \in StatFields :
        (/\ FirstOccurrence(csv["statistics"], k)
         /\ ClaimStatInRange(csv["statistics"].rows[k])
         /\ \/ col \notin csv["statistics"].cols
            \/ ClaimStatUnparsable(csv["statistics"].rows[k][col]))
        => ZeroInOutput(k, col)

\* C16: an unparsable or missing wins, losses or games_played value becomes 0,
\* a missing column becomes 0 for every record; normalizing these fields
\* never raises and never drops the record.
C16_StatFieldsDefaultToZero ==
    cleaned["statistics"] # NotRun => StatFieldsDefaulted

\* the same, for the calls of clean_statistics_data that did not end in the
\* exception handler
C16_DefaultToZeroUnlessCleaningRaised ==
    (cleaned["statistics"] # NotRun /\ "statistics" \notin clean_errors)
        => StatFieldsDefaulted

\* no wins column and an unparsable games_played: both are 0 in the output
C16_Witness ==
    /\ cleaned["statistics"] # NotRun
    /\ "statistics" \notin clean_errors
    /\ "wins" \notin csv["statistics"].cols
    /\ Len(csv["statistics"].rows) = 1
    /\ csv["statistics"].rows[1]["games_played"] = c_bad
    /\ ZeroInOutput(1, "games_played")
    /\ ZeroInOutput(1, "wins")

\* a non-finite games_played makes the normalization raise: the unparsable
\* value of the other row is returned as it was read
C16_RaisedWitness ==
    /\ cleaned["statistics"] # NotRun
    /\ csv["statistics"].cols = StatisticsColumns
    /\ Len(csv["statistics"].rows) = 2
    /\ csv["statistics"].rows[1]["games_played"] = c_inf
    /\ csv["statistics"].rows[2]["games_played"] = c_bad
    /\ "statistics" \in clean_errors
    /\ cleaned["statistics"].rows[2].cell["games_played"] = c_bad

(***************************************************************************)
(* Properties of the clean_* functions: the free-text fields               *)
(***************************************************************************)
FreeTextFields == {"description", "category", "stat_type", "event_type"}

\* the fixed sentinel of a free-text field
ClaimSentinel(col) ==
    CASE col = "description" -> StrCell(<<>>)
      [] col = "category" -> StrCell(txt_general)
      [] col = "stat_type" -> StrCell(txt_unknown)
      [] col = "event_type" -> StrCell(txt_unknown)

FreeTextFilled(t) ==
    \A n \in 1..Len(cleaned[t].rows) : \A col \in FreeTextFields \cap csv[t].cols :
        LET out == cleaned[t].rows[n].cell[col]
            in == csv[t].rows[cleaned[t].rows[n].idx][col]
        IN  /\ ~IsNaN(out)
            /\ IsNaN(in) => out = ClaimSentinel(col)

\* C17: after cleaning no record of events, players or statistics has a null
\* description, category, stat_type or event_type; a missing value is
\* replaced by the fixed sentinel string of the field.
C17_FreeTextNeverNull ==
    \A t \in Tables : cleaned[t] # NotRun => FreeTextFilled(t)

\* the same, for the calls of clean_* that did not end in the exception handler
C17_NeverNullUnlessCleaningRaised ==
    \A t \in Tables : (cleaned[t] # NotRun /\ t \notin clean_errors) => FreeTextFilled(t)

\* a missing category of an events row becomes 'general'
C17_Witness ==
    /\ cleaned["events"] # NotRun
    /\ "events" \notin clean_errors
    /\ Len(csv["events"].rows) = 1
    /\ csv["events"].rows[1]["category"] = NaN
    /\ Len(cleaned["events"].rows) = 1
    /\ cleaned["events"].rows[1].cell["category"] = StrCell(txt_general)

\* without the value column the missing category stays null
C17_RaisedWitness ==
    /\ cleaned["events"] # NotRun
    /\ "events" \in clean_errors
    /\ "value" \notin csv["events"].cols
    /\ Len(csv["events"].rows) = 1
    /\ csv["events"].rows[1]["category"] = NaN
    /\ cleaned["events"].rows[1].cell["category"] = NaN
    /\ imported["events"] = "True"

(***************************************************************************)
(* Properties of the clean_* functions: validation only drops              *)
(***************************************************************************)
\* the sentinel of a text column of table t
ClaimTextDefault(t, col) ==
    CASE col \in {"description", "value"} -> StrCell(<<>>)
      [] col = "category" -> StrCell(txt_general)
      [] col \in {"event_type", "stat_type"} -> StrCell(txt_unknown)
      [] col = "player_name" -> StrCell(txt_UnknownPlayer)
      [] col = "team" -> StrCell(txt_UnknownTeam)
      [] col \in {"stat_value", "rank"} -> StrCell(txt_0)
      [] col = "league" -> StrCell(txt_MLB)

\* the normalization of one input row of table t: numbers parsed or
\* defaulted, missing texts replaced by their sentinel, nothing clamped
ClaimNormal(t, cell) ==
    LET numeric == IF t = "players" THEN {} ELSE {"year"} \cup StatFields
        added == IF t = "statistics" THEN StatFields ELSE {}
    IN  [col \in DOMAIN cell \cup added |->
            IF col = "year" THEN IntCell(ClaimInt(cell[col], 2023))
            ELSE IF col \in numeric THEN IntCell(ClaimStatInt(cell, col, 0))
            ELSE IF IsNaN(cell[col]) THEN ClaimTextDefault(t, col)
            ELSE cell[col]]

\* the validation rules of table t on an input row
ClaimValid(t, cell) ==
    CASE t = "events" ->
            ClaimInt(cell["year"], 2023) >= 1900 /\ ClaimInt(cell["year"], 2023) <= 2025
      [] t = "players" -> ~ClaimBlank(cell["player_name"])
      [] t = "statistics" -> ClaimStatInRange(cell)

OnlyDrops(t) ==
    /\ \A n \in 1..Len(cleaned[t].rows) :
          /\ cleaned[t].rows[n].idx \in 1..Len(csv[t].rows)
          /\ cleaned[t].rows[n].cell = ClaimNormal(t, csv[t].rows[cleaned[t].rows[n].idx])
    /\ (\A k \in 1..Len(csv[t].rows) : ~ClaimValid(t, csv[t].rows[k]))
          => cleaned[t].rows = <<>>

\* C18: for a non-empty input every record in the output of a clean_*
\* function is the normalization of some input record, no field clamped, and
\* when validation rejects every record the output is empty.
C18_ValidationOnlyDrops ==
    \A t \in Tables : cleaned[t] # NotRun => OnlyDrops(t)

\* the same, for the calls of clean_* that did not end in the exception handler
C18_OnlyDropsUnlessCleaningRaised ==
    \A t \in Tables : (cleaned[t] # NotRun /\ t \notin clean_errors) => OnlyDrops(t)

\* a statistics file whose two rows are both out of range: nothing is left,
\* nothing is made up, nothing is loaded
C18_Witness ==
    /\ cleaned["statistics"] # NotRun
    /\ "statistics" \notin clean_errors
    /\ Len(csv["statistics"].rows) = 2
    /\ csv["statistics"].rows[1]["year"] = c_1850
    /\ csv["statistics"].rows[2]["games_played"] = c_250
    /\ cleaned["statistics"].rows = <<>>
    /\ imported["statistics"] = "False"

\* without the league column the out-of-range record is returned
C18_RaisedWitness ==
    /\ cleaned["statistics"] # NotRun
    /\ "statistics" \in clean_errors
    /\ "league" \notin csv["statistics"].cols
    /\ Len(csv["statistics"].rows) = 1
    /\ csv["statistics"].rows[1]["games_played"] = c_250
    /\ Len(cleaned["statistics"].rows) = 1
    /\ cleaned["statistics"].rows[1].cell["games_played"] = c_250

(***************************************************************************)
(* Properties of the import: the counters reported                         *)
(***************************************************************************)
Counters == {"input_count", "duplicate_count", "rejected_count", "output_count"}

\* C19: for every table it processes the filter reports input_count,
\* duplicate_count, rejected_count and output_count, and
\* input_count = duplicate_count + rejected_count + output_count.
C19_CountersReported ==
    \A t \in Tables :
        cleaned[t] # NotRun =>
            /\ Counters \subseteq DOMAIN reported[t]
            /\ reported[t]["input_count"] =
                  reported[t]["duplicate_count"] + reported[t]["rejected_count"]
                      + reported[t]["output_count"]

\* what the log does give: the rows read, the rows ready when cleaning did
\* not raise, the duplicates removed when there were any, and never a count
\* of the rejected rows
C19_CountsLogged ==
    \A t \in Tables :
        cleaned[t] # NotRun =>
            /\ "rejected_count" \notin DOMAIN reported[t]
            /\ reported[t]["input_count"] = Len(csv[t].rows)
            /\ "output_count" \in DOMAIN reported[t] <=> t \notin clean_errors
            /\ "output_count" \in DOMAIN reported[t] =>
                  reported[t]["output_count"] = Len(cleaned[t].rows)
            /\ "duplicate_count" \in DOMAIN reported[t] <=>
                  \E k \in 1..Len(csv[t].rows) : ~FirstOccurrence(csv[t], k)

\* a row is rejected for its year and the log only tells 2 rows read, 1 ready
C19_Witness ==
    /\ cleaned["events"] # NotRun
    /\ Len(csv["events"].rows) = 2
    /\ csv["events"].rows[1]["year"] = c_2023
    /\ csv["events"].rows[2]["year"] = c_1850
    /\ DOMAIN reported["events"] = {"input_count", "output_count"}
    /\ reported["events"]["input_count"] = 2
    /\ reported["events"]["output_count"] = 1

(***************************************************************************)
(* Several runs of run_import on one database                              *)
(***************************************************************************)
\* a well-formed two-row file of table t, its second row invalid
SecondFile(t) ==
    [exists |-> TRUE,
     cols |-> CASE t = "events" -> EventsColumns [] t = "players" -> PlayersColumns
                [] t = "statistics" -> StatisticsColumns,
     rows |-> CASE t = "events" -> <<EventRow(NaN, c_text), EventRow(c_1850, c_text)>>
                [] t = "players" -> <<PlayerRow(c_text, NaN), PlayerRow(c_blank, c_text)>>
                [] t = "statistics" ->
                     <<StatRow(c_2025, c_bad, c_81, c_81), StatRow(c_2023, c_250, c_81, c_81)>>]

\* the second file without one of the columns the cleaning fills
ShortFile(t) ==
    LET cs == SecondFile(t).cols \ {"category"}
    IN  [exists |-> TRUE, cols |-> cs,
         rows |-> [k \in 1..2 |-> [c \in cs |-> SecondFile(t).rows[k][c]]]]

\* the files a run may find for table t
RunFiles(t) == {NoFile, SampleFile(t), SecondFile(t), ShortFile(t)}

RunsInit ==
    /\ csv \in {f \in [Tables -> UNION {RunFiles(t) : t \in Tables}] :
                  \A t \in Tables : f[t] \in RunFiles(t)}
    /\ db = [t \in Tables |-> [cols |-> SchemaColumns(t), rows |-> <<>>]]
    /\ cleaned = [t \in Tables |-> NotRun]
    /\ imported = [t \in Tables |-> "pending"]
    /\ clean_errors = {}
    /\ reported = [t \in Tables |-> NoCounts]
    /\ run = 1
    /\ loads = [t \in Tables |-> 0]
    /\ InLoop
    /\ GrouperIdle
    /\ MvpIdle

\* run_import is called again once the previous call has returned: it
\* connects, create_tables leaves the existing tables as they are (CREATE
\* TABLE IF NOT EXISTS), and the loop over csv_files starts anew
NextRun ==
    /\ run < MaxRuns
    /\ \A t \in Tables : imported[t] # "pending"
    /\ run' = run + 1
    /\ csv' \in {f \in [Tables -> UNION {RunFiles(t) : t \in Tables}] :
                   \A t \in Tables : f[t] \in RunFiles(t)}
    /\ cleaned' = [t \in Tables |-> NotRun]
    /\ imported' = [t \in Tables |-> "pending"]
    /\ clean_errors' = {}
    /\ reported' = [t \in Tables |-> NoCounts]
    /\ UNCHANGED <<db, loads, runVars, notImport>>

RunsNext == ImportNext \/ NextRun

SpecRuns == RunsInit /\ [][RunsNext]_vars

\* C20: after any sequence of import runs each table whose latest import
\* succeeded holds exactly the cleaned records of that import: no row of an
\* earlier run remains, none is merged or appended.
C20_ReplaceSemantics ==
    \A t \in Tables :
        imported[t] = "True" =>
            /\ db[t].cols = cleaned[t].cols
            /\ db[t].rows = [k \in 1..Len(cleaned[t].rows) |-> cleaned[t].rows[k].cell]
            /\ t \notin clean_errors =>
                  \A n \in 1..Len(db[t].rows) :
                      \E k \in 1..Len(csv[t].rows) :
                          /\ ClaimValid(t, csv[t].rows[k])
                          /\ db[t].rows[n] = ClaimNormal(t, csv[t].rows[k])

\* events is loaded a second time, from another file, and holds the one
\* record of that file; players, not imported in this run, keeps its rows
C20_Witness ==
    /\ run = 2
    /\ loads["events"] = 2
    /\ imported["events"] = "True"
    /\ csv["events"] = SampleFile("events")
    /\ db["events"].rows = <<ClaimNormal("events", EventRow(c_2023, c_text))>>
    /\ imported["players"] = "False"
    /\ loads["players"] = 1
    /\ Len(db["players"].rows) = 1

(***************************************************************************)
(* database_import.py: run_import from the connect to the exit of main     *)
(***************************************************************************)
\* the indexes of create_indexes, in the order of the list
IndexList ==
    << <<"events", "year">>, <<"events", "category">>, <<"events", "event_type">>,
       <<"players", "player_name">>, <<"players", "team">>, <<"players", "category">>,
       <<"statistics", "year">>, <<"statistics", "team">>, <<"statistics", "category">> >>

\* CREATE INDEX ... ON table(column) works
Indexable(tables, i) == i[2] \in tables[i[1]].cols

\* create_indexes: the statements run in order, the first that fails ends
\* the function (its error is logged and the result ignored by run_import)
create_indexes(tables) ==
    {IndexList[n] : n \in {m \in 1..Len(IndexList) :
                             \A k \in 1..m : Indexable(tables, IndexList[k])}}

connect_to_database ==
    /\ pc = "run_import"
    /\ IF fault.op = "connect"
       THEN /\ ret' = "False"
            /\ pc' = "finally"
            /\ UNCHANGED conn
       ELSE IF fault.op = "cursor"
       THEN /\ conn' = "open"
            /\ ret' = "False"
            /\ pc' = "finally"
       ELSE /\ conn' = "open"
            /\ pc' = "create_tables"
            /\ UNCHANGED ret
    /\ UNCHANGED <<csv, db, cleaned, imported, clean_errors, reported, run, loads,
                   closes, exit_status, indexes, fault, notImport>>

\* CREATE TABLE IF NOT EXISTS for the three tables, then commit
create_tables ==
    /\ pc = "create_tables"
    /\ IF fault.op = "create_tables"
       THEN /\ ret' = "False"
            /\ pc' = "finally"
            /\ UNCHANGED db
       ELSE /\ db' = [t \in Tables |->
                        IF db[t] = NoTable
                        THEN [cols |-> SchemaColumns(t), rows |-> <<>>]
                        ELSE db[t]]
            /\ pc' = "import"
            /\ UNCHANGED ret
    /\ UNCHANGED <<csv, cleaned, imported, clean_errors, reported, run, loads,
                   conn, closes, exit_status, indexes, fault, notImport>>

\* the files that were imported successfully
success_count == Cardinality({t \in Tables : imported[t] = "True"})

\* a loop that ends at the first file that fails
LoopBroken == \E t \in Tables : imported[t] = "False"

\* for csv_path, table_name in csv_files: every entry is handled
LoopDone == \A t \in Tables : imported[t] # "pending"

\* the loop over csv_files is through: indexes and summary when a file was
\* imported, and the return value
end_of_loop ==
    /\ pc = "import"
    /\ LoopDone
    /\ IF success_count > 0
       THEN /\ indexes' = indexes \cup create_indexes(db)
            /\ ret' = "True"
       ELSE /\ ret' = "False"
            /\ UNCHANGED indexes
    /\ pc' = "finally"
    /\ UNCHANGED <<csv, db, cleaned, imported, clean_errors, reported, run, loads,
                   conn, closes, exit_status, fault, notImport>>

\* a close that is the last statement of the success path, not a finally
close_on_success ==
    /\ pc = "finally"
    /\ IF conn # "none" /\ ret = "True"
       THEN conn' = "closed" /\ closes' = closes + 1
       ELSE UNCHANGED <<conn, closes>>
    /\ pc' = "returned"
    /\ UNCHANGED <<csv, db, cleaned, imported, clean_errors, reported, run, loads,
                   ret, exit_status, indexes, fault, notImport>>

\* finally: if self.conn: self.conn.close()
run_import_finally ==
    /\ pc = "finally"
    /\ IF conn # "none"
       THEN conn' = "closed" /\ closes' = closes + 1
       ELSE UNCHANGED <<conn, closes>>
    /\ pc' = "returned"
    /\ UNCHANGED <<csv, db, cleaned, imported, clean_errors, reported, run, loads,
                   ret, exit_status, indexes, fault, notImport>>

\* main prints a message for either result and ends
main ==
    /\ pc = "returned"
    /\ exit_status' = 0
    /\ pc' = "exited"
    /\ UNCHANGED <<csv, db, cleaned, imported, clean_errors, reported, run, loads,
                   conn, closes, ret, indexes, fault, notImport>>

\* a file with the header line only
EmptyFile(t) == [exists |-> TRUE, cols |-> SampleFile(t).cols, rows |-> <<>>]

\* a well-formed file whose one row validation rejects
InvalidFile(t) ==
    [exists |-> TRUE, cols |-> SampleFile(t).cols,
     rows |-> CASE t = "events" -> <<EventRow(c_1850, c_text)>>
                [] t = "players" -> <<PlayerRow(c_blank, c_text)>>
                [] t = "statistics" -> <<StatRow(c_2023, c_250, c_81, c_81)>>]

RunImportFiles(t) == RunFiles(t) \cup {EmptyFile(t), InvalidFile(t)}

\* the statements the store may fail on
Faults ==
    {NoFault, [op |-> "connect"], [op |-> "cursor"], [op |-> "create_tables"]}
        \cup {[op |-> o, table |-> t] : o \in {"drop", "create", "insert"}, t \in Tables}

\* the table an earlier run loaded from the second file
PriorTable(t) == ToSql(NoTable, Clean(t, ReadCsv(SecondFile(t))))

\* run_import is called on a new database or on one an earlier run loaded
RunImportInit ==
    /\ \E t \in Tables : \E f \in RunImportFiles(t) : \E others \in BOOLEAN :
          csv = [u \in Tables |->
                    IF u = t THEN f ELSE IF others THEN SampleFile(u) ELSE NoFile]
    /\ \/ db = [t \in Tables |-> NoTable] /\ indexes = {}
       \/ db = [t \in Tables |-> PriorTable(t)]
             /\ indexes = {IndexList[n] : n \in 1..Len(IndexList)}
    /\ fault \in Faults
    /\ cleaned = [t \in Tables |-> NotRun]
    /\ imported = [t \in Tables |-> "pending"]
    /\ clean_errors = {}
    /\ reported = [t \in Tables |-> NoCounts]
    /\ run = 1
    /\ loads = [t \in Tables |-> 0]
    /\ pc = "run_import"
    /\ conn = "none"
    /\ closes = 0
    /\ ret = "none"
    /\ exit_status = "none"
    /\ OthersIdle
    /\ GrouperIdle
    /\ MvpIdle

RunImportNext ==
    \/ connect_to_database
    \/ create_tables
    \/ ImportNext
    \/ end_of_loop
    \/ run_import_finally
    \/ main

SpecRunImport == RunImportInit /\ [][RunImportNext]_vars

(***************************************************************************)
(* Properties of run_import                                                *)
(***************************************************************************)
\* C21: table load is atomic replace-or-fail: when the load of a table fails
\* the table still holds its complete prior contents; it is never left
\* dropped, empty or partly written.
C21_FailedLoadKeepsTable ==
    [][\A t \in Tables :
          (imported[t] = "pending" /\ imported'[t] = "False") => db'[t] = db[t]]_vars

\* the INSERT into players fails: the rows an earlier run loaded are gone
C21_Witness ==
    /\ fault = [op |-> "insert", table |-> "players"]
    /\ csv["players"] = SampleFile("players")
    /\ imported["players"] = "False"
    /\ PriorTable("players").rows # <<>>
    /\ db["events"] = PriorTable("events")
    /\ db["players"].rows = <<>>

\* the run connected and created the tables
ClaimTablesCreated == fault.op \notin {"connect", "cursor", "create_tables"}

\* C22: in every run that connected and created the tables all three tables
\* are attempted, in the order events, players, statistics; a missing file, a
\* validation failure, a cleaning failure or a storage error for one table
\* never prevents the attempt of the tables after it.
C22_EveryTableAttempted ==
    /\ \A t \in Tables :
          imported[t] # "pending" => \A u \in Before(t) : imported[u] # "pending"
    /\ (ret # "none" /\ ClaimTablesCreated) => \A t \in Tables : imported[t] # "pending"

\* the load of events fails in the store, players and statistics are loaded
C22_Witness ==
    /\ pc = "exited"
    /\ fault = [op |-> "insert", table |-> "events"]
    /\ imported = [t \in Tables |-> IF t = "events" THEN "False" ELSE "True"]
    /\ loads["statistics"] = 1

\* a table of the run was not loaded
ClaimSomeTableFailed == \E t \in Tables : imported[t] # "True"

\* C23: the import run reports failure, a non-zero exit status, whenever at
\* least one of the tables failed to load, not only when all of them failed.
C23_FailureReported ==
    (pc = "exited" /\ ClaimSomeTableFailed) => (ret = "False" /\ exit_status # 0)

\* what the code gives: run_import returns False only when no table was
\* loaded, and the process ends with status 0 whatever run_import returned
C23_ExitStatusAlwaysZero ==
    pc = "exited" =>
        /\ exit_status = 0
        /\ ret = "True" <=> \E t \in Tables : imported[t] = "True"

\* players.csv is missing, the other two tables are loaded: True, status 0
C23_Witness ==
    /\ pc = "exited"
    /\ fault = NoFault
    /\ csv["players"] = NoFile
    /\ imported = [t \in Tables |-> IF t = "players" THEN "False" ELSE "True"]
    /\ ret = "True"
    /\ exit_status = 0

\* no table is loaded: run_import returns False, the status is 0 all the same
C23_AllFailedWitness ==
    /\ pc = "exited"
    /\ \A t \in Tables : imported[t] = "False"
    /\ ret = "False"
    /\ exit_status = 0


\* ---------------------------------------------------------------------------
\* database_query.py: the query program, run on the database run_import left
\* ---------------------------------------------------------------------------

\* the options of the command line run_query_program dispatches on
Args == {"interactive", "year", "team", "join", "summary", "tables", "none"}

\* what can be typed at the prompt of interactive_mode, other than quit
Commands ==
    {"events", "players", "join", "summary", "player-stats", "cross-ref",
     "custom", "tables", "unknown", "invalid"}

\* the columns each canned query names, by table
Needs(query) ==
    CASE query = "events" ->
           [events |-> {"year", "event_type", "description", "value", "category"}]
      [] query = "players" ->
           [players |-> {"player_name", "stat_value", "stat_type", "team", "category"}]
      [] query = "join" ->
           [events |-> {"year", "event_type", "description", "category"},
            players |-> {"player_name", "stat_type", "team", "category"}]
      [] query = "summary" ->
           [events |-> {"year", "event_type", "category"}]
      [] query = "player-stats" ->
           [players |-> {"category", "team", "stat_type", "player_name"}]
      [] query = "cross-ref" ->
           [events |-> {"id", "year", "category", "event_type"},
            players |-> {"id", "category"}]

\* execute_query on a canned query: the rows, or the error it prints before
\* it returns the empty list
execute_query(query) ==
    IF \A t \in DOMAIN Needs(query) : Needs(query)[t] \subseteq db[t].cols
    THEN "rows"
    ELSE "error"

\* the outcomes of the command typed: a canned query is answered from the
\* tables, show_available_tables reads the catalogue, custom SQL can do either
Outcomes(command) ==
    CASE command \in {"unknown", "invalid"} -> {"none"}
      [] command = "tables" -> {"rows"}
      [] command = "custom" -> {"rows", "error"}
      [] OTHER -> {execute_query(command)}

\* the canned query a command-line option runs
ArgQuery(arg) ==
    CASE arg = "year" -> "events"
      [] arg = "team" -> "players"
      [] OTHER -> arg

\* DatabaseQueryManager.connect_to_database, first statement of run_query_program
query_connect_to_database ==
    /\ q_pc = "start"
    /\ pc = "exited"
    /\ \E a \in Args : q_args' = a
    /\ \E failed \in {"none", "connect", "cursor"} :
          IF failed = "connect"
          THEN /\ q_ret' = "False"
               /\ q_pc' = "finally"
               /\ UNCHANGED q_conn
          ELSE IF failed = "cursor"
          THEN /\ q_conn' = "open"
               /\ q_ret' = "False"
               /\ q_pc' = "finally"
          ELSE /\ q_conn' = "open"
               /\ q_pc' = "dispatch"
               /\ UNCHANGED q_ret
    /\ UNCHANGED <<q_closes, q_command, q_answer, q_count, notQuery>>

\* one canned query chosen on the command line; an exception that escapes it
\* is caught by run_query_program, which returns False
run_query_program ==
    /\ q_pc = "dispatch"
    /\ q_args \notin {"interactive", "none"}
    /\ \E raised \in BOOLEAN :
          IF raised
          THEN /\ q_ret' = "False"
               /\ UNCHANGED <<q_command, q_answer>>
          ELSE /\ q_command' = ArgQuery(q_args)
               /\ \E o \in Outcomes(ArgQuery(q_args)) : q_answer' = o
               /\ UNCHANGED q_ret
    /\ q_pc' = "finally"
    /\ UNCHANGED <<q_conn, q_closes, q_args, q_count, notQuery>>

\* --interactive, or no option at all
interactive_mode ==
    /\ q_pc = "dispatch"
    /\ q_args \in {"interactive", "none"}
    /\ q_pc' = "interactive"
    /\ UNCHANGED <<q_conn, q_closes, q_ret, q_args, q_command, q_answer, q_count,
                   notQuery>>

\* one turn of the loop of interactive_mode on a command other than quit
interactive_command ==
    /\ q_pc = "interactive"
    /\ q_count < MaxCommands
    /\ \E c \in Commands : \E o \in Outcomes(c) :
          /\ q_command' = c
          /\ q_answer' = o
    /\ q_count' = q_count + 1
    /\ UNCHANGED <<q_pc, q_conn, q_closes, q_ret, q_args, notQuery>>

\* quit, exit or an interrupt at the prompt, or an exception escaping the loop
interactive_quit ==
    /\ q_pc = "interactive"
    /\ \E raised \in BOOLEAN :
          q_ret' = IF raised THEN "False" ELSE q_ret
    /\ q_pc' = "finally"
    /\ UNCHANGED <<q_conn, q_closes, q_args, q_command, q_answer, q_count, notQuery>>

\* the finally clause of run_query_program, then its return value
query_finally ==
    /\ q_pc = "finally"
    /\ IF q_conn # "none"
       THEN q_conn' = "closed" /\ q_closes' = q_closes + 1
       ELSE UNCHANGED <<q_conn, q_closes>>
    /\ q_ret' = IF q_ret = "none" THEN "True" ELSE q_ret
    /\ q_pc' = "returned"
    /\ UNCHANGED <<q_args, q_command, q_answer, q_count, notQuery>>

\* both programs, the query program after the import: the sample files or no
\* files, on a new database or on one an earlier run loaded
ProgramsInit ==
    /\ \E present \in BOOLEAN :
          csv = [u \in Tables |-> IF present THEN SampleFile(u) ELSE NoFile]
    /\ \/ db = [t \in Tables |-> NoTable] /\ indexes = {}
       \/ db = [t \in Tables |-> PriorTable(t)]
             /\ indexes = {IndexList[n] : n \in 1..Len(IndexList)}
    /\ fault \in Faults
    /\ cleaned = [t \in Tables |-> NotRun]
    /\ imported = [t \in Tables |-> "pending"]
    /\ clean_errors = {}
    /\ reported = [t \in Tables |-> NoCounts]
    /\ run = 1
    /\ loads = [t \in Tables |-> 0]
    /\ pc = "run_import"
    /\ conn = "none"
    /\ closes = 0
    /\ ret = "none"
    /\ exit_status = "none"
    /\ QueryIdle
    /\ CleanIdle
    /\ ScraperIdle
    /\ GrouperIdle
    /\ MvpIdle

ProgramsNext ==
    \/ connect_to_database
    \/ create_tables
    \/ ImportNext
    \/ end_of_loop
    \/ run_import_finally
    \/ main
    \/ query_connect_to_database
    \/ run_query_program
    \/ interactive_mode
    \/ interactive_command
    \/ interactive_quit
    \/ query_finally

SpecPrograms == ProgramsInit /\ [][ProgramsNext]_vars


\* the layout the specification gives for the core tables
ClaimLayout(t) ==
    CASE t = "events" ->
           {"id", "year", "event_type", "description", "value", "category"}
      [] t = "players" ->
           {"id", "player_name", "stat_value", "stat_type", "team", "category"}
      [] t = "statistics" ->
           {"id", "year", "team", "category", "games_played", "wins", "losses", "league"}

\* C24: after a successful import each core table still has the layout the
\* specification gives, with its id column, and the cross-reference query,
\* which counts distinct e.id and p.id, is answered from the loaded tables.
\* Violated: to_sql(if_exists='replace') drops the table create_tables made
\* and creates it again from the frame's columns, so id is gone and the
\* cross-reference query fails with "no such column".
C24_PersistedLayoutKept ==
    /\ \A t \in Tables : imported[t] = "True" => ClaimLayout(t) \subseteq db[t].cols
    /\ (/\ imported["events"] = "True"
        /\ imported["players"] = "True"
        /\ q_command = "cross-ref")
       => q_answer = "rows"

\* what holds instead: a table has an id column exactly as long as no import
\* has replaced it, and the cross-reference query is answered exactly on
\* tables create_tables made and no import replaced
C24_IdOnlyOnUnloadedTables ==
    /\ \A t \in Tables : "id" \in db[t].cols => db[t] = [cols |-> SchemaColumns(t), rows |-> <<>>]
    /\ \A t \in Tables : imported[t] = "True" => "id" \notin db[t].cols
    /\ (q_command = "cross-ref" /\ q_answer = "rows")
       => \A t \in {"events", "players"} : imported[t] # "True" /\ loads[t] = 0

\* all three files were imported and the cross-reference query then failed
C24_Witness ==
    /\ \A t \in Tables : imported[t] = "True"
    /\ ret = "True"
    /\ q_command = "cross-ref"
    /\ q_answer = "error"
    /\ "id" \notin db["events"].cols

\* on tables no import has replaced the cross-reference query is answered
C24_AnsweredWitness ==
    /\ q_command = "cross-ref"
    /\ q_answer = "rows"
    /\ \A t \in Tables : imported[t] = "False"


\* the statistics CSV is missing or has no rows
ClaimNoStatisticsRows ==
    ~csv["statistics"].exists \/ csv["statistics"].rows = <<>>

\* the table holds a record of the synthetic series
ClaimSampleLoaded ==
    \E k \in DOMAIN db["statistics"].rows :
        LET r == db["statistics"].rows[k]
        IN  "team" \in DOMAIN r /\ r["team"] = StrCell(txt_MLBAverage)

\* the step in which import_csv_to_table returns for statistics
ClaimStatisticsReturns ==
    imported["statistics"] = "pending" /\ imported'["statistics"] # "pending"

C28_ZeroRowsWitness ==
    /\ csv["statistics"] = InvalidFile("statistics")
    /\ imported["statistics"] = "False"
    /\ cleaned["statistics"] # NotRun
    /\ cleaned["statistics"].rows = <<>>
    /\ db["statistics"] = PriorTable("statistics")


\* C30: in every execution of run_import and of run_query_program in which
\* the connection was opened, the connection is closed exactly once before
\* the function returns, on the success path, on every early-return failure
\* path and on every exception path, and no table operation is issued on the
\* connection after it is closed.
C30_HandleLifecycle ==
    /\ [](closes <= 1 /\ q_closes <= 1)
    /\ []((pc \in {"returned", "exited"} /\ conn # "none")
             => (conn = "closed" /\ closes = 1))
    /\ []((q_pc = "returned" /\ q_conn # "none")
             => (q_conn = "closed" /\ q_closes = 1))
    /\ [](conn = "none" => closes = 0)
    /\ [](q_conn = "none" => q_closes = 0)
    /\ [][conn = "closed"
             => UNCHANGED <<db, indexes, loads, imported, cleaned>>]_vars
    /\ [][q_conn = "closed" => UNCHANGED <<q_command, q_answer, q_count>>]_vars

\* create_tables failed and run_import returned early, a query raised out of
\* the dispatch of run_query_program: both connections were closed once
C30_Witness ==
    /\ fault.op = "create_tables"
    /\ pc = "exited"
    /\ ret = "False"
    /\ conn = "closed"
    /\ closes = 1
    /\ q_pc = "returned"
    /\ q_args = "summary"
    /\ q_command = "none"
    /\ q_ret = "False"
    /\ q_conn = "closed"
    /\ q_closes = 1

\* both programs on their success paths
C30_SuccessWitness ==
    /\ ret = "True"
    /\ conn = "closed"
    /\ closes = 1
    /\ q_ret = "True"
    /\ q_count = MaxCommands
    /\ q_conn = "closed"
    /\ q_closes = 1


\* ---------------------------------------------------------------------------
\* dashboard.py: analyze_brothers_data on the frames the dashboard may load
\* ---------------------------------------------------------------------------

\* the texts of a brothers_names cell: names, delimiters and blanks
NameTexts == UNION {[1..k -> {"a", ";"}] : k \in 0..MaxNameLen}

\* a row of brothers.csv
BrothersRows ==
    {[set_number |-> IntCell(1), brothers_count |-> c, brothers_names |-> n] :
        c \in {IntCell(2), StrCell(<<"x">>)},
        n \in {StrCell(t) : t \in NameTexts} \cup {NaN}}

\* load_data has read the frame, analyze_brothers_data has not run
BrothersInit ==
    /\ \E r1 \in BrothersRows : \E r2 \in BrothersRows : brothers_df = <<r1, r2>>
    /\ cells = <<>>
    /\ current_set = NoAccumulator
    /\ data = <<>>
    /\ raw_records = <<>>
    /\ gstatus = "cleaned"
    /\ brothers_out = <<>>
    /\ MvpIdle
    /\ ImportIdle

BrothersNext == AnalyzeBrothers

SpecBrothers == BrothersInit /\ [][BrothersNext]_vars

\* the number of ';' characters of a text
ClaimSemicolons(t) == Cardinality({k \in 1..Len(t) : t[k] = ";"})

\* the text between the (n-1)th and the nth ';' of t, the ends counting as one
ClaimElement(t, n) ==
    LET at == {0, Len(t) + 1} \cup {k \in 1..Len(t) : t[k] = ";"}
        from == CHOOSE p \in at : Cardinality({q \in at : q < p}) = n - 1
        to == CHOOSE p \in at : Cardinality({q \in at : q < p}) = n
    IN  [k \in 1..(to - from - 1) |-> t[from + k]]

\* C27: for every brothers_names text the derived count is the number of ';'
\* characters plus one, the empty elements between or around delimiters are
\* kept in their positions and counted, and the split list joined again with
\* ';' gives back the original text.
C27_DelimitedListFields ==
    gstatus = "analyzed" =>
        \A n \in 1..Len(brothers_out) :
            LET row == brothers_out[n]
            IN  IsStr(row.brothers_names) =>
                  LET t == row.brothers_names.s
                  IN  /\ row.total_brothers = [i |-> ClaimSemicolons(t) + 1]
                      /\ Len(row.brother_list) = ClaimSemicolons(t) + 1
                      /\ \A k \in 1..Len(row.brother_list) :
                            row.brother_list[k] = ClaimElement(t, k)
                      /\ Join(row.brother_list, ";") = t

\* "a;;" was split into a name and two empty elements, counted as three
C27_Witness ==
    /\ gstatus = "analyzed"
    /\ Len(brothers_out) >= 1
    /\ brothers_out[1].brothers_names = [s |-> <<"a", ";", ";">>]
    /\ brothers_out[1].brother_list = << <<"a">>, <<>>, <<>> >>
    /\ brothers_out[1].total_brothers = [i |-> 3]


\* ---------------------------------------------------------------------------
\* the cleaning functions called directly, then called on their own output
\* ---------------------------------------------------------------------------

CleanFunctions ==
    {"clean_events_data", "clean_players_data", "clean_statistics_data", "clean_mvp_data"}

\* the table a cleaning function of the importer belongs to
TableOf(fn) ==
    CASE fn = "clean_events_data" -> "events"
      [] fn = "clean_players_data" -> "players"
      [] fn = "clean_statistics_data" -> "statistics"

\* pd.DataFrame(): no column, no row
NoColumns == [cols |-> {}, rows |-> <<>>]

\* the frames a cleaning function may be called on: those read_csv gives for
\* the input files, a frame with columns and no row, a frame with nothing
CleanInputs(fn) ==
    IF fn = "clean_mvp_data"
    THEN UNION {[1..n -> MvpRows] : n \in 0..MaxMvpRows}
    ELSE {ReadCsv(f) : f \in {g \in CsvFiles(TableOf(fn)) : g.exists}
                                \cup {EmptyFile(TableOf(fn))}}
            \cup {NoColumns}

\* the call fn(df)
Apply(fn, df) ==
    IF fn = "clean_mvp_data" THEN clean_mvp_data(df) ELSE Clean(TableOf(fn), df)

\* the function returned a frame
Returned(out) == out # NotRun /\ ("status" \in DOMAIN out => out.status = "ok")

\* the frame a function returned, as the argument of the next call
AsInput(fn, out) ==
    IF fn = "clean_mvp_data"
    THEN [k \in 1..Len(out.rows) |->
            [year |-> out.rows[k].year, league |-> out.rows[k].league,
             team |-> out.rows[k].team, player_name |-> out.rows[k].player_name]]
    ELSE [cols |-> out.cols, rows |-> out.rows]

CleanInit ==
    /\ \E fn \in CleanFunctions :
          /\ clean_fn = fn
          /\ clean_in \in CleanInputs(fn)
    /\ clean_out = NotRun
    /\ clean_again = NotRun
    /\ QueryIdle
    /\ ScraperIdle
    /\ GrouperIdle
    /\ MvpIdle
    /\ csv = [t \in Tables |-> NoFile]
    /\ db = [t \in Tables |-> [cols |-> SchemaColumns(t), rows |-> <<>>]]
    /\ cleaned = [t \in Tables |-> NotRun]
    /\ imported = [t \in Tables |-> "pending"]
    /\ clean_errors = {}
    /\ reported = [t \in Tables |-> NoCounts]
    /\ run = 1
    /\ loads = [t \in Tables |-> 0]
    /\ pc = "import"
    /\ conn = "open"
    /\ closes = 0
    /\ ret = "none"
    /\ exit_status = "none"
    /\ indexes = {}
    /\ fault = NoFault

\* the function is called on the input
CleanCall ==
    /\ clean_out = NotRun
    /\ clean_out' = Apply(clean_fn, clean_in)
    /\ UNCHANGED <<clean_fn, clean_in, clean_again, notClean>>

\* the function is called on the frame it returned
CleanAgain ==
    /\ Returned(clean_out)
    /\ clean_again = NotRun
    /\ clean_again' = Apply(clean_fn, AsInput(clean_fn, clean_out))
    /\ UNCHANGED <<clean_fn, clean_in, clean_out, notClean>>

CleanNext == CleanCall \/ CleanAgain

SpecClean == CleanInit /\ [][CleanNext]_vars

\* the records of a returned frame, in order, without the index labels
ClaimRecords(out) ==
    IF "cols" \in DOMAIN out
    THEN [k \in 1..Len(out.rows) |-> out.rows[k].cell]
    ELSE [k \in 1..Len(out.rows) |->
            [year |-> out.rows[k].year, league |-> out.rows[k].league,
             team |-> out.rows[k].team, player_name |-> out.rows[k].player_name]]

\* the input of the call has no record
ClaimEmptyInput == clean_in.rows = <<>>

\* C25: statistics is the only table with a synthetic fallback:
\* clean_statistics_data on an empty input returns exactly five records, one
\* per year 2020..2024, each with team 'MLB Average', games_played 162, wins
\* 81, losses 81 and league 'MLB'; clean_events_data and clean_players_data
\* on an empty input return an empty output.
C25_SyntheticFallbackOnlyForStatistics ==
    (clean_out # NotRun /\ clean_fn # "clean_mvp_data" /\ ClaimEmptyInput) =>
        IF clean_fn = "clean_statistics_data"
        THEN /\ Len(clean_out.rows) = 5
             /\ \A k \in 1..5 :
                   LET r == clean_out.rows[k].cell
                   IN  /\ r["year"] = [i |-> 2019 + k]
                       /\ r["team"] = [s |-> <<"M", "L", "B", " ", "A", "v", "e", "r", "a", "g", "e">>]
                       /\ r["games_played"] = [i |-> 162]
                       /\ r["wins"] = [i |-> 81]
                       /\ r["losses"] = [i |-> 81]
                       /\ r["league"] = [s |-> <<"M", "L", "B">>]
        ELSE clean_out.rows = <<>>

\* clean_statistics_data was called on a frame with columns and no row
C25_Witness ==
    /\ clean_fn = "clean_statistics_data"
    /\ clean_in = ReadCsv(EmptyFile("statistics"))
    /\ clean_out # NotRun
    /\ Len(clean_out.rows) = 5

\* clean_events_data was called on a frame with columns and no row
C25_EventsWitness ==
    /\ clean_fn = "clean_events_data"
    /\ clean_in = ReadCsv(EmptyFile("events"))
    /\ clean_out # NotRun
    /\ clean_out.rows = <<>>

\* C26: cleaning is idempotent: a cleaning function applied to its own output
\* returns that output unchanged, the same records with the same field
\* values in the same order.
\* Violated: clean_statistics_data turns its own empty output into the five
\* sample records, drop_duplicates removes on the second call the records
\* that only normalization made equal, and clean_mvp_data removes the
\* "(<digits>)" that the first removal put together.
C26_CleaningIdempotent ==
    clean_again # NotRun =>
        /\ Returned(clean_again)
        /\ ClaimRecords(clean_again) = ClaimRecords(clean_out)

\* the records of the output repeat one another
ClaimOutputRepeats ==
    \E j \in 1..Len(clean_out.rows) : \E k \in 1..Len(clean_out.rows) :
        j < k /\ ClaimRecords(clean_out)[j] = ClaimRecords(clean_out)[k]

\* the team of an output record still holds a "(<digits>)"
ClaimCountLeft ==
    /\ clean_fn = "clean_mvp_data"
    /\ \E k \in 1..Len(clean_out.rows) :
          /\ IsStr(clean_out.rows[k].team)
          /\ \E q \in 1..Len(clean_out.rows[k].team.s) :
                SeasonCountEnd(clean_out.rows[k].team.s, q) > 0

\* what holds instead: the second call changes nothing unless the first
\* output is an empty statistics frame, holds records that normalization made
\* equal, or holds a team text in which a "(<digits>)" is left
C26_IdempotentOnSettledOutput ==
    clean_again # NotRun =>
        \/ /\ Returned(clean_again)
           /\ ClaimRecords(clean_again) = ClaimRecords(clean_out)
        \/ clean_fn = "clean_statistics_data" /\ clean_out.rows = <<>>
        \/ clean_fn # "clean_mvp_data" /\ ClaimOutputRepeats
        \/ ClaimCountLeft

\* every row of the statistics file was out of range: the first call returned
\* no record, the second the five sample records
C26_Witness ==
    /\ clean_fn = "clean_statistics_data"
    /\ clean_in.rows # <<>>
    /\ clean_out # NotRun
    /\ clean_out.rows = <<>>
    /\ clean_again # NotRun
    /\ Len(clean_again.rows) = 5

\* two event records that the year default made equal: the second call
\* removed one
C26_RepeatsWitness ==
    /\ clean_fn = "clean_events_data"
    /\ clean_again # NotRun
    /\ ~clean_out.err
    /\ Len(clean_out.rows) = 2
    /\ Len(clean_again.rows) = 1

\* "Do((1)2)" became "Do(2)" in the first call and "Do" in the second
C26_MvpWitness ==
    /\ clean_fn = "clean_mvp_data"
    /\ clean_again # NotRun
    /\ Len(clean_out.rows) >= 1
    /\ clean_out.rows[1].team = [s |-> <<"D", "o", "(", "2", ")">>]
    /\ clean_again.rows[1].team = [s |-> <<"D", "o">>]


\* ---------------------------------------------------------------------------
\* scraper.py: scrape_all_data, save_to_csv
\* ---------------------------------------------------------------------------

\* range(2020, 2025), and the years of the team pages
years_to_scrape == 2020..2024
team_years == 2023..2024

\* the first six of teams, with the base of their wins
TopTeams == <<"Yankees", "Dodgers", "Astros", "Braves", "Red Sox", "Giants">>

base_wins(team) == IF team \in {"Yankees", "Dodgers", "Astros"} THEN 85 ELSE 75

Max(a, b) == IF a >= b THEN a ELSE b
Min(a, b) == IF a <= b THEN a ELSE b

\* a sample generator that exists and makes one event
generate_sample_events ==
    [raised |-> FALSE,
     events |-> << [year |-> 2023, event_type |-> "sample", origin |-> "sample"] >>]

\* self.generate_sample_data(): the class has no such method, the call raises
\* AttributeError and adds nothing
generate_sample_data == [raised |-> TRUE, events |-> <<>>]

\* the events scrape_year_events returns for a page: nothing when driver.get
\* raises, else what was scraped followed by the two synthetic events
YearEvents(year, page) ==
    IF page = "get_failed" THEN <<>>
    ELSE (IF page = "one_leader"
          THEN << [year |-> year, event_type |-> "league_leader", origin |-> "scraped"] >>
          ELSE <<>>)
         \o << [year |-> year, event_type |-> "season_summary", origin |-> "synthetic"],
               [year |-> year, event_type |-> "world_series", origin |-> "synthetic"] >>

\* the years of events_data, in increasing order
EventYears == {events_data[k].year : k \in 1..Len(events_data)}

\* the records generate_statistics_from_events appends; draw is the value of
\* np.random.randint(-8, 15), taken once for the call
GeneratedStatistics(draw) ==
    LET n == Cardinality(EventYears)
    IN  [k \in 1..(6 * n) |->
            LET year == NthOf(EventYears, ((k - 1) \div 6) + 1)
                team == TopTeams[((k - 1) % 6) + 1]
                wins == Max(60, Min(110, base_wins(team) + draw))
            IN  [year |-> year, team |-> team, games_played |-> 162,
                 wins |-> wins, losses |-> 162 - wins, origin |-> "generated"]]

\* the first statement of scrape_all_data
setup_driver ==
    /\ s_pc = "start"
    /\ \E ok \in BOOLEAN :
          IF ok
          THEN /\ driver' = "up"
               /\ s_pc' = "events"
               /\ s_year' = 2020
               /\ UNCHANGED events_data
          ELSE /\ events_data' = events_data \o generate_sample_data.events
               /\ s_pc' = IF generate_sample_data.raised THEN "except" ELSE "finally"
               /\ UNCHANGED <<driver, s_year>>
    /\ UNCHANGED <<players_data, statistics_data, fetches, files, notScraper>>

\* one turn of the loop over years_to_scrape
scrape_year_events ==
    /\ s_pc = "events"
    /\ s_year \in years_to_scrape
    /\ \E page \in {"get_failed", "no_leader", "one_leader"} :
          events_data' = events_data \o YearEvents(s_year, page)
    /\ fetches' = fetches + 1
    /\ IF s_year + 1 \in years_to_scrape
       THEN s_year' = s_year + 1 /\ s_pc' = s_pc
       ELSE s_year' = 0 /\ s_pc' = "players"
    /\ UNCHANGED <<driver, players_data, statistics_data, files, notScraper>>

\* the career leaders page
scrape_leaders_data ==
    /\ s_pc = "players"
    /\ \E found \in BOOLEAN :
          players_data' = IF found
                          THEN Append(players_data,
                                      [team |-> "Career", origin |-> "scraped"])
                          ELSE players_data
    /\ fetches' = fetches + 1
    /\ s_pc' = "teams"
    /\ s_year' = 2023
    /\ UNCHANGED <<driver, events_data, statistics_data, files, notScraper>>

\* one turn of the loop over the team pages
scrape_team_data ==
    /\ s_pc = "teams"
    /\ s_year \in team_years
    /\ \E found \in BOOLEAN :
          statistics_data' =
              IF found
              THEN Append(statistics_data,
                          [year |-> s_year, team |-> "scraped", games_played |-> 162,
                           wins |-> 81, losses |-> 81, origin |-> "scraped"])
              ELSE statistics_data
    /\ fetches' = fetches + 1
    /\ IF s_year + 1 \in team_years
       THEN s_year' = s_year + 1 /\ s_pc' = s_pc
       ELSE s_year' = 0 /\ s_pc' = "generate"
    /\ UNCHANGED <<driver, events_data, players_data, files, notScraper>>

\* called at the end of the try block and by the except handler
generate_statistics_from_events ==
    /\ s_pc \in {"generate", "except"}
    /\ \E draw \in {-8, 14} :
          statistics_data' = statistics_data \o GeneratedStatistics(draw)
    /\ s_pc' = "finally"
    /\ UNCHANGED <<s_year, driver, events_data, players_data, fetches, files,
                   notScraper>>

\* the finally clause: driver.quit() when there is a driver; an exception of
\* quit leaves scrape_all_data
scraper_finally ==
    /\ s_pc = "finally"
    /\ IF driver = "none"
       THEN s_pc' = "returned" /\ UNCHANGED driver
       ELSE /\ driver' = "quit"
            /\ \E quit_ok \in BOOLEAN :
                  s_pc' = IF quit_ok THEN "returned" ELSE "raised"
    /\ UNCHANGED <<s_year, events_data, players_data, statistics_data, fetches, files,
                   notScraper>>

\* the collections save_to_csv finds non-empty, in the order it writes them
NonEmptyData ==
    {t \in Tables : CASE t = "events" -> events_data # <<>>
                      [] t = "players" -> players_data # <<>>
                      [] t = "statistics" -> statistics_data # <<>>}

\* main: save_to_csv after scrape_all_data has returned; to_csv may raise
save_to_csv ==
    /\ s_pc = "returned"
    /\ \E failed \in {"none"} \cup NonEmptyData :
          files' = IF failed = "none" THEN NonEmptyData
                   ELSE {t \in NonEmptyData : t \in Before(failed)}
    /\ s_pc' = "saved"
    /\ UNCHANGED <<s_year, driver, events_data, players_data, statistics_data, fetches,
                   notScraper>>

ScraperInit ==
    /\ ScraperIdle
    /\ QueryIdle
    /\ CleanIdle
    /\ GrouperIdle
    /\ MvpIdle
    /\ csv = [t \in Tables |-> NoFile]
    /\ db = [t \in Tables |-> [cols |-> SchemaColumns(t), rows |-> <<>>]]
    /\ cleaned = [t \in Tables |-> NotRun]
    /\ imported = [t \in Tables |-> "pending"]
    /\ clean_errors = {}
    /\ reported = [t \in Tables |-> NoCounts]
    /\ run = 1
    /\ loads = [t \in Tables |-> 0]
    /\ pc = "import"
    /\ conn = "open"
    /\ closes = 0
    /\ ret = "none"
    /\ exit_status = "none"
    /\ indexes = {}
    /\ fault = NoFault

ScraperNext ==
    \/ setup_driver
    \/ scrape_year_events
    \/ scrape_leaders_data
    \/ scrape_team_data
    \/ generate_statistics_from_events
    \/ scraper_finally
    \/ save_to_csv

SpecScraper == ScraperInit /\ [][ScraperNext]_vars

\* setup_driver has returned False: scrape_all_data has started and there is
\* no driver
ClaimDriverFailed == s_pc # "start" /\ driver = "none"

C29_ScrapedWitness ==
    /\ driver = "quit"
    /\ s_pc = "saved"
    /\ fetches = 8
    /\ Len(events_data) = 15
    /\ Len(statistics_data) = 32
    /\ files = Tables

====
